---- MODULE Spec2Model ----
(***************************************************************************)
(* A model of the alignment core of the PPK validation plugin:             *)
(* AlignmentAnalyzer (src/alignment_analyzer.py), which pairs image GPS    *)
(* positions with EO positions by a key derived from the file name, under  *)
(* an integer shift of the time-sorted EO records.                         *)
(*                                                                         *)
(* Strings are sequences of one-character strings, so that str.replace and *)
(* str.strip are computed character by character.  Coordinates are         *)
(* integers; the feature positions are drawn from points whose mutual      *)
(* distances are whole numbers, so that math.sqrt is exact on them.        *)
(* A Python dict is a sequence of [key, value] entries in insertion order. *)
(* float('inf') and the quotients of get_alignment_stats are fractions     *)
(* [num, den]; den = 0 is positive infinity.                               *)
(***************************************************************************)
EXTENDS Integers, Sequences, FiniteSets, TLC

VARIABLES
    image_layer,    \* AlignmentAnalyzer.image_layer: the features, in feature order
    eo_layer,       \* AlignmentAnalyzer.eo_layer: the features, in feature order
    current_shift,  \* AlignmentAnalyzer.current_shift
    call,           \* the last call made on the analyzer: [op, shift]
    image_dict,     \* calculate_distances: image_dict of the last call
    eo_dict,        \* calculate_distances: eo_dict as built from the layer
    eo_items,       \* calculate_distances: eo_items (sorted by event_time)
    shifted_dict,   \* calculate_distances: eo_dict as used for matching
    results,        \* calculate_distances: the list returned
    stats,          \* get_alignment_stats: the dict returned
    raw,            \* _extract_base_filename: the argument
    key,            \* _extract_base_filename: the value returned
    pin,            \* the shift the operator has pinned (history), or None
    first,          \* what the first call with the pinned shift returned (history)
    search,         \* best_shift: the last search and its outcome
    dialog,         \* the AlignmentDialog: its fields and widgets
    project,        \* QgsProject.instance(): the map layers, in the order added
    mapper_current_layer,   \* LocationMapper.current_layer
    plotter_current_layer,  \* EOPlotter.current_layer
    ret,            \* the last call on the mapper, plotter or finder and its outcome
    selector        \* the EOFileSelector dialog while it is open, or None

vars == <<image_layer, eo_layer, current_shift, call, image_dict, eo_dict,
          eo_items, shifted_dict, results, stats, raw, key, pin, first,
          search, dialog, project, mapper_current_layer,
          plotter_current_layer, ret, selector>>

\* the state outside the analyzer and its dialog
ioVars ==
    <<project, mapper_current_layer, plotter_current_layer, ret, selector>>

-----------------------------------------------------------------------------
(* Bounds of the model.                                                    *)

MaxImg == 2

MaxEO == 3

MaxShift == 2

MaxParts == 3

-----------------------------------------------------------------------------
(* Strings.                                                                *)

Suffix == <<"_", "1", ".", "t", "i", "f">>

Whitespace == {" ", "\t", "\n"}

RECURSIVE Replace(_, _, _)
\* str.replace(old, new): every non-overlapping occurrence, left to right.
Replace(s, old, new) ==
    IF Len(s) < Len(old) THEN s
    ELSE IF SubSeq(s, 1, Len(old)) = old
         THEN new \o Replace(SubSeq(s, Len(old) + 1, Len(s)), old, new)
         ELSE <<Head(s)>> \o Replace(Tail(s), old, new)

RECURSIVE LStrip(_)
LStrip(s) ==
    IF s # <<>> /\ Head(s) \in Whitespace THEN LStrip(Tail(s)) ELSE s

RECURSIVE RStrip(_)
RStrip(s) ==
    IF s # <<>> /\ s[Len(s)] \in Whitespace
    THEN RStrip(SubSeq(s, 1, Len(s) - 1)) ELSE s

\* str.strip()
Strip(s) == RStrip(LStrip(s))

RECURSIVE ReplaceFirst(_, _, _)
\* str.replace(old, new, 1): the first occurrence only
ReplaceFirst(s, old, new) ==
    IF Len(s) < Len(old) THEN s
    ELSE IF SubSeq(s, 1, Len(old)) = old
         THEN new \o SubSeq(s, Len(old) + 1, Len(s))
         ELSE <<Head(s)>> \o ReplaceFirst(Tail(s), old, new)

\* A plausible slip: only the first occurrence of the suffix is removed.
ExtractFirstOnly(filename) == Strip(ReplaceFirst(filename, Suffix, <<>>))

\* AlignmentAnalyzer._extract_base_filename
ExtractBaseFilename(filename) == Strip(Replace(filename, Suffix, <<>>))

\* t in s
Contains(s, t) ==
    \E i \in 1..(Len(s) - Len(t) + 1) : SubSeq(s, i, i + Len(t) - 1) = t

\* s.endswith(t)
EndsWith(s, t) ==
    Len(s) >= Len(t) /\ SubSeq(s, Len(s) - Len(t) + 1, Len(s)) = t

-----------------------------------------------------------------------------
(* Numbers.                                                                *)

\* math.sqrt on a whole number: the root, rounded down.
Sqrt(q) == CHOOSE r \in 0..q : r * r <= q /\ (r + 1) * (r + 1) > q

\* float('inf')
Inf == [num |-> 1, den |-> 0]

\* a / b for b > 0, kept as a fraction
Div(a, b) == [num |-> a, den |-> b]

RECURSIVE SumSeq(_)
SumSeq(s) == IF s = <<>> THEN 0 ELSE Head(s) + SumSeq(Tail(s))

RECURSIVE MaxSeq(_)
MaxSeq(s) ==
    IF Len(s) = 1 THEN s[1]
    ELSE LET m == MaxSeq(Tail(s)) IN IF Head(s) >= m THEN Head(s) ELSE m

-----------------------------------------------------------------------------
(* Dictionaries.                                                           *)

\* the keys of a dict
DictKeys(d) == {d[i].key : i \in 1..Len(d)}

\* d[k], for k in d
DictGet(d, k) == d[CHOOSE i \in 1..Len(d) : d[i].key = k].value

\* A plausible slip: the first record of a key is kept.
DictSetFirstWins(d, k, v) ==
    IF k \in DictKeys(d) THEN d ELSE Append(d, [key |-> k, value |-> v])

\* d[k] = v: a key already there keeps its place and takes the new value.
DictSet(d, k, v) ==
    IF k \in DictKeys(d)
    THEN [i \in 1..Len(d) |->
            IF d[i].key = k THEN [key |-> k, value |-> v] ELSE d[i]]
    ELSE Append(d, [key |-> k, value |-> v])

RECURSIVE DictOfPairs(_)
\* {k: v for ...}: the pairs are written in order
DictOfPairs(pairs) ==
    IF pairs = <<>> THEN <<>>
    ELSE LET n == Len(pairs)
         IN DictSet(DictOfPairs(SubSeq(pairs, 1, n - 1)), pairs[n][1], pairs[n][2])

\* image_dict = {self._extract_base_filename(f['filename']): f for f in image_features}
ImageDict(features) ==
    DictOfPairs([i \in 1..Len(features) |->
                    <<ExtractBaseFilename(features[i].filename), features[i]>>])

\* eo_dict = {self._extract_base_filename(f['photo_id']): f for f in eo_features}
EoDict(features) ==
    DictOfPairs([i \in 1..Len(features) |->
                    <<ExtractBaseFilename(features[i].photo_id), features[i]>>])

RECURSIVE InsertByTime(_, _)
\* the place of e in a list sorted by event_time: after every entry that is
\* not later than it (sorted() is stable)
InsertByTime(sorted, e) ==
    IF sorted = <<>> THEN <<e>>
    ELSE IF Head(sorted).value.event_time <= e.value.event_time
         THEN <<Head(sorted)>> \o InsertByTime(Tail(sorted), e)
         ELSE <<e>> \o sorted

RECURSIVE SortedByTime(_)
\* sorted(eo_dict.items(), key=lambda x: x[1]['event_time'])
SortedByTime(d) ==
    IF d = <<>> THEN <<>>
    ELSE InsertByTime(SortedByTime(SubSeq(d, 1, Len(d) - 1)), d[Len(d)])

\* A plausible slip: the rotation runs the other way.
ShiftedIdxBackward(i, shift, n) == (i - shift) % n

\* A plausible slip: no wraparound, the index is clamped to the last record.
ShiftedIdxClamped(i, shift, n) ==
    IF i + shift < 0 THEN 0 ELSE IF i + shift >= n THEN n - 1 ELSE i + shift

\* shifted_idx = (i + shift) % len(eo_items), i counted from 0
ShiftedIdx(i, shift, n) == (i + shift) % n

\* A plausible slip: shift 0 is rotated like any other shift, by one more.
ApplyShiftOffByOne(dict, items, shift) ==
    [j \in 1..Len(items) |->
        [key   |-> items[j].key,
         value |-> items[ShiftedIdx(j - 1, shift + 1, Len(items)) + 1].value]]

\* "if shift != 0: ... eo_dict = shifted_eo": the dict used for matching
ApplyShift(dict, items, shift) ==
    IF shift # 0
    THEN [j \in 1..Len(items) |->
            [key   |-> items[j].key,
             value |-> items[ShiftedIdx(j - 1, shift, Len(items)) + 1].value]]
    ELSE dict

\* A plausible slip: the vertical difference is left out of the 3D distance.
MatchResultNoDz(image_id, image_feature, eo_feature) ==
    LET dx == image_feature.x - eo_feature.x
        dy == image_feature.y - eo_feature.y
        dz == image_feature.altitude - eo_feature.ellipsoid_height
    IN [image_id    |-> image_id,
        distance_3d |-> Sqrt(dx * dx + dy * dy),
        distance_2d |-> Sqrt(dx * dx + dy * dy),
        dx |-> dx, dy |-> dy, dz |-> dz,
        image_time  |-> image_feature.timestamp,
        eo_time     |-> eo_feature.event_time]

\* A plausible slip: the vertical difference is taken as a magnitude.
MatchResultAbsDz(image_id, image_feature, eo_feature) ==
    LET dx == image_feature.x - eo_feature.x
        dy == image_feature.y - eo_feature.y
        d  == image_feature.altitude - eo_feature.ellipsoid_height
        dz == IF d < 0 THEN 0 - d ELSE d
    IN [image_id    |-> image_id,
        distance_3d |-> Sqrt(dx * dx + dy * dy + dz * dz),
        distance_2d |-> Sqrt(dx * dx + dy * dy),
        dx |-> dx, dy |-> dy, dz |-> dz,
        image_time  |-> image_feature.timestamp,
        eo_time     |-> eo_feature.event_time]

\* the dict appended to results for one matching key
MatchResult(image_id, image_feature, eo_feature) ==
    LET dx == image_feature.x - eo_feature.x
        dy == image_feature.y - eo_feature.y
        dz == image_feature.altitude - eo_feature.ellipsoid_height
    IN [image_id    |-> image_id,
        distance_3d |-> Sqrt(dx * dx + dy * dy + dz * dz),
        distance_2d |-> Sqrt(dx * dx + dy * dy),
        dx |-> dx, dy |-> dy, dz |-> dz,
        image_time  |-> image_feature.timestamp,
        eo_time     |-> eo_feature.event_time]

RECURSIVE Matches(_, _)
\* for image_id, image_feature in image_dict.items(): if image_id in eo_dict: ...
Matches(imgs, eos) ==
    IF imgs = <<>> THEN <<>>
    ELSE LET n    == Len(imgs)
             e    == imgs[n]
             rest == Matches(SubSeq(imgs, 1, n - 1), eos)
         IN IF e.key \in DictKeys(eos)
            THEN Append(rest, MatchResult(e.key, e.value, DictGet(eos, e.key)))
            ELSE rest

\* A plausible slip: the sums are divided by one more than the count.
StatsOfOffByOne(distances) ==
    IF distances = <<>>
    THEN [avg_3d |-> Inf, avg_2d |-> Inf, max_3d |-> Inf, matches |-> 0]
    ELSE LET d3 == [i \in 1..Len(distances) |-> distances[i].distance_3d]
             d2 == [i \in 1..Len(distances) |-> distances[i].distance_2d]
         IN [avg_3d  |-> Div(SumSeq(d3), Len(distances) + 1),
             avg_2d  |-> Div(SumSeq(d2), Len(distances) + 1),
             max_3d  |-> Div(MaxSeq(d3), 1),
             matches |-> Len(distances)]

\* A plausible slip: an empty result list is averaged like any other.
StatsOfNoGuard(distances) ==
    LET d3 == [i \in 1..Len(distances) |-> distances[i].distance_3d]
        d2 == [i \in 1..Len(distances) |-> distances[i].distance_2d]
    IN [avg_3d  |-> Div(SumSeq(d3), Len(distances)),
        avg_2d  |-> Div(SumSeq(d2), Len(distances)),
        max_3d  |-> Div(IF distances = <<>> THEN 0 ELSE MaxSeq(d3), 1),
        matches |-> Len(distances)]

\* the dict get_alignment_stats returns for the list `distances`
StatsOf(distances) ==
    IF distances = <<>>
    THEN [avg_3d |-> Inf, avg_2d |-> Inf, max_3d |-> Inf, matches |-> 0]
    ELSE LET d3 == [i \in 1..Len(distances) |-> distances[i].distance_3d]
             d2 == [i \in 1..Len(distances) |-> distances[i].distance_2d]
         IN [avg_3d  |-> Div(SumSeq(d3), Len(distances)),
             avg_2d  |-> Div(SumSeq(d2), Len(distances)),
             max_3d  |-> Div(MaxSeq(d3), 1),
             matches |-> Len(distances)]

-----------------------------------------------------------------------------
(* The layers the analyzer is constructed with.                            *)

\* The camera positions along the flight line; every difference of two of
\* them has whole-number 2D and 3D lengths (3-4-5 and 5-12-13 triangles).
Position(i) ==
    [x |-> IF i % 2 = 1 THEN 100 ELSE 103,
     y |-> IF i % 2 = 1 THEN 200 ELSE 204,
     z |-> IF i % 4 \in {1, 2} THEN 50 ELSE 62]

ImageNames == {<<"A">> \o Suffix, <<" ", "B">>}

PhotoIds == {<<"A">>, <<"B">>, <<"C">>}

EventTimes == {1, 2}

\* a feature of the "Image Locations (UTM)" layer
ImageFeature(fid, filename) ==
    [fid |-> fid, filename |-> filename,
     x |-> Position(fid + 1).x, y |-> Position(fid + 1).y,
     altitude |-> Position(fid + 1).z, timestamp |-> 10 + fid]

\* a feature of the "EO Positions" layer, as calculate_distances reads it
EoFeature(fid, photo_id, event_time) ==
    [fid |-> fid, photo_id |-> photo_id,
     x |-> Position(fid).x, y |-> Position(fid).y,
     ellipsoid_height |-> Position(fid).z, event_time |-> event_time]

ImageLayers ==
    UNION {{[i \in 1..n |-> ImageFeature(i, names[i])] : names \in [1..n -> ImageNames]}
           : n \in 0..MaxImg}

EoLayers ==
    UNION {{[i \in 1..n |-> EoFeature(i, c[i][1], c[i][2])]
            : c \in [1..n -> PhotoIds \X EventTimes]}
           : n \in 0..MaxEO}

Shifts == (0 - MaxShift)..MaxShift

\* the value of a variable no call has set yet
None == [none |-> TRUE]

NoCall == [op |-> "none", shift |-> 0]

\* a fresh LocationMapper and EOPlotter on an empty project (__init__)
NoIo ==
    /\ project = <<>>
    /\ mapper_current_layer = None
    /\ plotter_current_layer = None
    /\ ret = [op |-> "none"]
    /\ selector = None

\* AlignmentAnalyzer.__init__
Init ==
    /\ image_layer \in ImageLayers
    /\ eo_layer \in EoLayers
    /\ current_shift = 0
    /\ call = NoCall
    /\ image_dict = <<>>
    /\ eo_dict = <<>>
    /\ eo_items = <<>>
    /\ shifted_dict = <<>>
    /\ results = <<>>
    /\ stats = None
    /\ raw = <<>>
    /\ key = <<>>
    /\ pin = None
    /\ first = None
    /\ search = None
    /\ dialog = None
    /\ NoIo

\* the first value returned for the pinned shift is kept (history only)
Observe(shift, returned) ==
    first' = IF pin = [shift |-> shift] /\ first = None
             THEN [returned |-> returned] ELSE first

\* the body of calculate_distances(shift): its locals and the list returned
Distances(shift) ==
    /\ image_dict' = ImageDict(image_layer)
    /\ eo_dict' = EoDict(eo_layer)
    /\ eo_items' = SortedByTime(eo_dict')
    /\ shifted_dict' = ApplyShift(eo_dict', eo_items', shift)
    /\ results' = Matches(image_dict', shifted_dict')

\* A plausible slip: the shift is remembered in self.current_shift and the
\* next shift is applied on top of it.
CalculateDistancesRelative(shift) ==
    /\ call' = [op |-> "calculate_distances", shift |-> shift]
    /\ Distances(current_shift + shift)
    /\ current_shift' = shift
    /\ stats' = None
    /\ Observe(shift, results')
    /\ UNCHANGED <<image_layer, eo_layer, raw, key, pin, search, dialog>>
    /\ UNCHANGED ioVars

\* AlignmentAnalyzer.calculate_distances
CalculateDistances(shift) ==
    /\ call' = [op |-> "calculate_distances", shift |-> shift]
    /\ Distances(shift)
    /\ stats' = None
    /\ Observe(shift, results')
    /\ UNCHANGED <<image_layer, eo_layer, current_shift, raw, key, pin, search, dialog>>
    /\ UNCHANGED ioVars

\* AlignmentAnalyzer.get_alignment_stats
GetAlignmentStats(shift) ==
    /\ call' = [op |-> "get_alignment_stats", shift |-> shift]
    /\ Distances(shift)
    /\ stats' = StatsOf(results')
    /\ Observe(shift, results')
    /\ UNCHANGED <<image_layer, eo_layer, current_shift, raw, key, pin, search, dialog>>
    /\ UNCHANGED ioVars

Next ==
    \E shift \in Shifts :
        \/ CalculateDistances(shift)
        \/ GetAlignmentStats(shift)

Spec == Init /\ [][Next]_vars

-----------------------------------------------------------------------------
(* The analyzer with one shift pinned by the operator: the value returned  *)
(* by the first call with that shift is kept, to compare later calls with. *)

\* the EO layers whose event times alternate along the feature order
PinnedEoLayers ==
    {l \in EoLayers : \A i \in 1..Len(l) : l[i].event_time = 1 + (i % 2)}

InitPinned ==
    /\ image_layer \in ImageLayers
    /\ eo_layer \in PinnedEoLayers
    /\ current_shift = 0
    /\ call = NoCall
    /\ image_dict = <<>>
    /\ eo_dict = <<>>
    /\ eo_items = <<>>
    /\ shifted_dict = <<>>
    /\ results = <<>>
    /\ stats = None
    /\ raw = <<>>
    /\ key = <<>>
    /\ pin \in {[shift |-> s] : s \in Shifts}
    /\ first = None
    /\ search = None
    /\ dialog = None
    /\ NoIo

SpecPinned == InitPinned /\ [][Next]_vars

-----------------------------------------------------------------------------
(* The alignment dialog: AlignmentDialog over an analyzer.                 *)

\* self.shift_spinbox.setRange(-100, 100)
SpinboxMax == 100

\* f"{x:.2f}": "inf" for infinity, else x rounded to hundredths
Format2f(x) ==
    IF x.den = 0 THEN [text |-> "inf"]
    ELSE [hundredths |-> (200 * x.num + x.den) \div (2 * x.den)]

\* the rows update_results writes into details_table
TableRows(distances) ==
    [row \in 1..Len(distances) |->
        [image_id    |-> distances[row].image_id,
         distance_3d |-> Format2f(Div(distances[row].distance_3d, 1)),
         distance_2d |-> Format2f(Div(distances[row].distance_2d, 1)),
         image_time  |-> distances[row].image_time,
         eo_time     |-> distances[row].eo_time]]

\* AlignmentDialog.update_results: the widgets after it, `st` being what
\* get_alignment_stats(self.current_shift) returned and `distances` what
\* calculate_distances(self.current_shift) returned
UpdateResults(d, st, distances) ==
    [d EXCEPT
        !.avg_3d_label   = [caption |-> "Average 3D Distance",
                            value |-> Format2f(st.avg_3d), unit |-> "m"],
        !.avg_2d_label   = [caption |-> "Average 2D Distance",
                            value |-> Format2f(st.avg_2d), unit |-> "m"],
        !.max_dist_label = [caption |-> "Maximum Distance",
                            value |-> Format2f(st.max_3d), unit |-> "m"],
        !.matches_label  = [caption |-> "Matching Points", value |-> st.matches],
        !.details_table  = TableRows(distances),
        !.events         = Append(d.events, [event |-> "update_results",
                                             shift |-> d.current_shift])]

\* AlignmentDialog.setup_ui: the widgets as created
SetupUi ==
    [current_shift  |-> 0,
     shift_spinbox  |-> 0,
     avg_3d_label   |-> [caption |-> "Average 3D Distance", value |-> "--", unit |-> ""],
     avg_2d_label   |-> [caption |-> "Average 2D Distance", value |-> "--", unit |-> ""],
     max_dist_label |-> [caption |-> "Maximum Distance", value |-> "--", unit |-> ""],
     matches_label  |-> [caption |-> "Matching Points", value |-> "--"],
     details_table  |-> <<>>,
     handler        |-> "__init__",
     events         |-> <<>>]

\* AlignmentDialog.__init__ on an analyzer just constructed: setup_ui, then
\* update_results for shift 0
InitDialog ==
    /\ image_layer \in ImageLayers
    /\ eo_layer \in EoLayers
    /\ current_shift = 0
    /\ call = [op |-> "calculate_distances", shift |-> 0]
    /\ image_dict = ImageDict(image_layer)
    /\ eo_dict = EoDict(eo_layer)
    /\ eo_items = SortedByTime(eo_dict)
    /\ shifted_dict = ApplyShift(eo_dict, eo_items, 0)
    /\ results = Matches(image_dict, shifted_dict)
    /\ stats = StatsOf(results)
    /\ raw = <<>>
    /\ key = <<>>
    /\ pin = None
    /\ first = None
    /\ search = None
    /\ dialog = UpdateResults(SetupUi, stats, results)
    /\ NoIo

\* A plausible slip: the display is refreshed before the new value is stored.
OnShiftChangedStale(value) ==
    /\ dialog # None
    /\ value \in (0 - SpinboxMax)..SpinboxMax
    /\ value # dialog.shift_spinbox
    /\ call' = [op |-> "calculate_distances", shift |-> dialog.current_shift]
    /\ Distances(dialog.current_shift)
    /\ stats' = StatsOf(results')
    /\ dialog' =
          LET shown == UpdateResults([dialog EXCEPT !.shift_spinbox = value,
                                                    !.handler = "on_shift_changed",
                                                    !.events = <<>>],
                                     stats', results')
          IN [shown EXCEPT
                !.current_shift = value,
                !.events = Append(shown.events, [event |-> "alignmentChanged",
                                                 shift |-> value])]
    /\ Observe(dialog.current_shift, results')
    /\ UNCHANGED <<image_layer, eo_layer, current_shift, raw, key, pin, search>>
    /\ UNCHANGED ioVars

\* AlignmentDialog.on_shift_changed, the slot of shift_spinbox.valueChanged:
\* store the value, update_results (get_alignment_stats, then
\* calculate_distances, for self.current_shift), emit alignmentChanged
OnShiftChanged(value) ==
    /\ dialog # None
    /\ value \in (0 - SpinboxMax)..SpinboxMax
    /\ value # dialog.shift_spinbox
    /\ LET stored == [dialog EXCEPT !.shift_spinbox = value,
                                    !.current_shift = value,
                                    !.handler = "on_shift_changed",
                                    !.events = <<>>]
       IN /\ call' = [op |-> "calculate_distances", shift |-> stored.current_shift]
          /\ Distances(stored.current_shift)
          /\ stats' = StatsOf(results')
          /\ dialog' =
                LET shown == UpdateResults(stored, stats', results')
                IN [shown EXCEPT
                      !.events = Append(shown.events, [event |-> "alignmentChanged",
                                                       shift |-> value])]
          /\ Observe(stored.current_shift, results')
    /\ UNCHANGED <<image_layer, eo_layer, current_shift, raw, key, pin, search>>
    /\ UNCHANGED ioVars

NextDialog == \E value \in Shifts : OnShiftChanged(value)

SpecDialog == InitDialog /\ [][NextDialog]_vars

-----------------------------------------------------------------------------
(* The full search, best_shift (spec section 4.4).  The sources hold the   *)
(* pinned-shift pipeline only; the search over it is taken from the        *)
(* specification: every shift of [lo, hi] is scored by get_alignment_stats *)
(* and the least avg_3d wins, ties going to the smallest magnitude and     *)
(* then to the smallest value.                                             *)

\* what get_alignment_stats(shift) returns on the layers as they are
StatsFor(shift) ==
    LET dict == EoDict(eo_layer)
    IN StatsOf(Matches(ImageDict(image_layer),
                       ApplyShift(dict, SortedByTime(dict), shift)))

Abs(n) == IF n < 0 THEN 0 - n ELSE n

\* a < b for two finite fractions
Less(a, b) == a.num * b.den < b.num * a.den

\* A plausible slip: on equal avg_3d the shift met first (the lowest) is kept.
PreferredFirstMet(s, st, t, u) == Less(st.avg_3d, u.avg_3d)

\* candidate shift s with statistics st is preferred to shift t with statistics u
Preferred(s, st, t, u) ==
    \/ Less(st.avg_3d, u.avg_3d)
    \/ /\ ~Less(u.avg_3d, st.avg_3d)
       /\ \/ Abs(s) < Abs(t)
          \/ Abs(s) = Abs(t) /\ s < t

RECURSIVE SearchFrom(_, _, _, _)
\* the loop over the shifts s..hi, `best` being the best shift so far
SearchFrom(s, hi, best, per_shift) ==
    IF s > hi THEN best
    ELSE SearchFrom(s + 1, hi,
                    IF Preferred(s, per_shift[s], best, per_shift[best])
                    THEN s ELSE best,
                    per_shift)

\* best_shift(image_seq, eo_seq, [lo, hi])
BestShift(lo, hi) ==
    LET per_shift == [s \in lo..hi |-> StatsFor(s)]
    IN IF \A s \in lo..hi : per_shift[s].matches = 0
       THEN [lo |-> lo, hi |-> hi, outcome |-> "NoAlignmentFound",
             per_shift |-> per_shift]
       ELSE LET best == SearchFrom(lo + 1, hi, lo, per_shift)
            IN [lo |-> lo, hi |-> hi, outcome |-> "found",
                best_shift |-> best, best_stats |-> per_shift[best],
                per_shift |-> per_shift]

InitSearch ==
    /\ image_layer \in ImageLayers
    /\ eo_layer \in PinnedEoLayers
    /\ current_shift = 0
    /\ call = NoCall
    /\ image_dict = <<>>
    /\ eo_dict = <<>>
    /\ eo_items = <<>>
    /\ shifted_dict = <<>>
    /\ results = <<>>
    /\ stats = None
    /\ raw = <<>>
    /\ key = <<>>
    /\ pin = None
    /\ first = None
    /\ search = None
    /\ dialog = None
    /\ NoIo

\* the one call best_shift(image_seq, eo_seq, [lo, hi]) made on the layers
Search(lo, hi) ==
    /\ search = None
    /\ lo <= hi
    /\ search' = BestShift(lo, hi)
    /\ UNCHANGED <<image_layer, eo_layer, current_shift, call, image_dict,
                   eo_dict, eo_items, shifted_dict, results, stats, raw, key,
                   pin, first, dialog>>
    /\ UNCHANGED ioVars

NextSearch == \E lo \in Shifts, hi \in Shifts : Search(lo, hi)

SpecSearch == InitSearch /\ [][NextSearch]_vars

-----------------------------------------------------------------------------
(* Key extraction on its own: one call of _extract_base_filename.          *)

Pieces == {Suffix, <<" ">>, <<"\t">>, <<"A">>, <<"_", "1", ".">>, <<"t", "i", "f">>}

RECURSIVE Concat(_)
Concat(parts) == IF parts = <<>> THEN <<>> ELSE Head(parts) \o Concat(Tail(parts))

RawStrings == {Concat(parts) : parts \in UNION {[1..n -> Pieces] : n \in 0..MaxParts}}

InitKey ==
    /\ image_layer = <<>>
    /\ eo_layer = <<>>
    /\ current_shift = 0
    /\ call = NoCall
    /\ image_dict = <<>>
    /\ eo_dict = <<>>
    /\ eo_items = <<>>
    /\ shifted_dict = <<>>
    /\ results = <<>>
    /\ stats = None
    /\ raw \in RawStrings
    /\ key = <<>>
    /\ pin = None
    /\ first = None
    /\ search = None
    /\ dialog = None
    /\ NoIo

\* a call self._extract_base_filename(raw)
ExtractKey ==
    /\ call.op = "none"
    /\ call' = [op |-> "_extract_base_filename", shift |-> 0]
    /\ key' = ExtractBaseFilename(raw)
    /\ UNCHANGED <<image_layer, eo_layer, current_shift, image_dict, eo_dict,
                   eo_items, shifted_dict, results, stats, raw, pin, first,
                   search, dialog>>
    /\ UNCHANGED ioVars

NextKey == ExtractKey

SpecKey == InitKey /\ [][NextKey]_vars

-----------------------------------------------------------------------------
(* Files and layers: EOPlotter (src/plot_eo.py) and LocationMapper         *)
(* (src/location_mapper.py) on the one QgsProject.  A layer is a record    *)
(* [name, crs, fields, features]; a feature is a record of its attributes  *)
(* and its geometry.  A text file is the sequence of its lines, a line the *)
(* sequence of its comma-separated fields (no quoting is used).  An        *)
(* exception is a record [type, message], the message a sequence of its    *)
(* parts.                                                                  *)

MaxLayers == 2

Upper == <<"A", "B", "C", "D", "E", "F", "G", "H", "I", "J", "K", "L", "M",
           "N", "O", "P", "Q", "R", "S", "T", "U", "V", "W", "X", "Y", "Z">>

LowerLetters == <<"a", "b", "c", "d", "e", "f", "g", "h", "i", "j", "k", "l", "m",
                  "n", "o", "p", "q", "r", "s", "t", "u", "v", "w", "x", "y", "z">>

\* str.lower()
Lower(s) ==
    [i \in 1..Len(s) |->
        IF \E k \in 1..Len(Upper) : Upper[k] = s[i]
        THEN LowerLetters[CHOOSE k \in 1..Len(Upper) : Upper[k] = s[i]]
        ELSE s[i]]

Digits == <<"0", "1", "2", "3", "4", "5", "6", "7", "8", "9">>

IsDigit(c) == \E k \in 1..Len(Digits) : Digits[k] = c

DigitValue(c) == (CHOOSE k \in 1..Len(Digits) : Digits[k] = c) - 1

RECURSIVE DigitsValue(_)
DigitsValue(s) ==
    IF s = <<>> THEN 0
    ELSE 10 * DigitsValue(SubSeq(s, 1, Len(s) - 1)) + DigitValue(s[Len(s)])

\* float(s) succeeds; the rows below hold unsigned whole numbers, possibly
\* padded with whitespace, and strings that are no number at all
IsFloat(s) ==
    LET t == Strip(s)
    IN t # <<>> /\ \A i \in 1..Len(t) : IsDigit(t[i])

\* float(s)
Float(s) == DigitsValue(Strip(s))

\* the tokens that mark a header row
HeaderTokens ==
    {<<"f", "i", "l", "e", "n", "a", "m", "e">>, <<"n", "a", "m", "e">>,
     <<"i", "m", "a", "g", "e">>}

\* the rows of an EO file
RowA == << <<"A">>, <<"3">>, <<"4">>, <<"5">>, <<"t", "1", " ">> >>

RowB == << <<"B">>, <<" ", "6">>, <<"8">>, <<"0">>, <<"t", "2">> >>

RowHeader ==
    << <<"F", "i", "l", "e", "n", "a", "m", "e">>, <<"x">>, <<"y">>, <<"z">>,
       <<"t", "i", "m", "e">> >>

\* a header whose first column is not one of the tokens
RowHeaderId ==
    << <<"i", "d">>, <<"x">>, <<"y">>, <<"z">>, <<"t", "i", "m", "e">> >>

\* a position whose easting is not a number
RowBadX == << <<"C">>, <<"e">>, <<"4">>, <<"5">>, <<"t", "3">> >>

\* a row of three columns
RowShort == << <<"C">>, <<"3">>, <<"4">> >>

\* a position with a sensor column before the timestamp
RowSensor ==
    << <<"A">>, <<"3">>, <<"4">>, <<"5">>, <<"I", "m", "a", "g", "e">>,
       <<"t", "1">> >>

EoPlain == [name |-> "plain.txt", exists |-> TRUE, lines |-> <<RowA, RowB>>]

EoHeader == [name |-> "header.txt", exists |-> TRUE, lines |-> <<RowHeader, RowB>>]

EoHeaderId ==
    [name |-> "headerid.txt", exists |-> TRUE, lines |-> <<RowHeaderId, RowA>>]

EoBadRow == [name |-> "badrow.txt", exists |-> TRUE, lines |-> <<RowA, RowBadX, RowB>>]

EoShort == [name |-> "short.txt", exists |-> TRUE, lines |-> <<RowA, RowShort>>]

EoSensor == [name |-> "sensor.txt", exists |-> TRUE, lines |-> <<RowSensor, RowB>>]

EoEmpty == [name |-> "empty.txt", exists |-> TRUE, lines |-> <<>>]

EoMissing == [name |-> "missing.txt", exists |-> FALSE, lines |-> <<>>]

EoFiles ==
    {EoPlain, EoHeader, EoHeaderId, EoBadRow, EoShort, EoSensor, EoEmpty,
     EoMissing}

\* the lists of files handed to plot_eo_files
EoFileLists ==
    {<<>>, <<EoEmpty>>, <<EoMissing>>, <<EoShort>>, <<EoPlain>>, <<EoHeader>>,
     <<EoSensor>>, <<EoBadRow, EoPlain>>, <<EoMissing, EoHeader>>,
     <<EoEmpty, EoBadRow>>}

\* first_fields = f.readline().strip().split(',')
FirstFields(lines) ==
    IF lines = <<>> \/ lines[1] = <<>> THEN << <<>> >>
    ELSE LET row == lines[1]
             n   == Len(row)
         IN [i \in 1..n |->
                IF n = 1 THEN Strip(row[1])
                ELSE IF i = 1 THEN LStrip(row[1])
                ELSE IF i = n THEN RStrip(row[n])
                ELSE row[i]]

\* has_header = any(field.lower() in {...} for field in first_fields)
HasHeader(lines) ==
    \E i \in 1..Len(FirstFields(lines)) :
        Lower(FirstFields(lines)[i]) \in HeaderTokens

\* the rows the csv reader yields after the header, if any, is skipped
DataRows(lines) ==
    IF HasHeader(lines) THEN SubSeq(lines, 2, Len(lines)) ELSE lines

\* the body of the loop over the rows raises (IndexError or ValueError)
RowFails(row) ==
    \/ Len(row) < 4
    \/ \E i \in 2..4 : ~IsFloat(row[i])

\* record = {'filename': row[0], 'x': float(row[1]), ...}
RecordOf(row) ==
    [filename |-> row[1], x |-> Float(row[2]), y |-> Float(row[3]),
     z |-> Float(row[4]), timestamp |-> Strip(row[Len(row)])]

ValueError(message) == [type |-> "ValueError", message |-> message]

\* read_eo_file(file_path): the records, or the ValueError that any failure
\* within the one try block is turned into
ReadEoFile(file) ==
    IF ~file.exists
    THEN [raised |-> ValueError(<<"Error reading EO file", file.name>>)]
    ELSE LET rows == DataRows(file.lines)
         IN IF \E i \in 1..Len(rows) : RowFails(rows[i])
            THEN [raised |-> ValueError(<<"Error reading EO file", file.name>>)]
            ELSE [returned |-> [i \in 1..Len(rows) |-> RecordOf(rows[i])]]

RECURSIVE AllRecords(_)
\* the loop of plot_eo_files: the records of every file that could be read,
\* each with its source_file
AllRecords(eo_files) ==
    IF eo_files = <<>> THEN <<>>
    ELSE LET n    == Len(eo_files)
             file == eo_files[n]
             rest == AllRecords(SubSeq(eo_files, 1, n - 1))
             read == ReadEoFile(file)
         IN IF "raised" \in DOMAIN read THEN rest
            ELSE rest \o [i \in 1..Len(read.returned) |->
                             [filename    |-> read.returned[i].filename,
                              x           |-> read.returned[i].x,
                              y           |-> read.returned[i].y,
                              z           |-> read.returned[i].z,
                              timestamp   |-> read.returned[i].timestamp,
                              source_file |-> file.name]]

\* EOPlotter.create_vector_layer(all_records): the layer built
EoVectorLayer(all_records) ==
    [name     |-> <<"EO Positions">>,
     crs      |-> "EPSG:32610",
     fields   |-> <<"filename", "altitude", "timestamp", "source_file">>,
     features |-> [i \in 1..Len(all_records) |->
                     [filename    |-> all_records[i].filename,
                      altitude    |-> all_records[i].z,
                      timestamp   |-> all_records[i].timestamp,
                      source_file |-> all_records[i].source_file,
                      geometry    |-> [x |-> all_records[i].x,
                                       y |-> all_records[i].y]]]]

\* a call read_eo_file(file_path)
ReadEoFileCall(file) ==
    /\ ret' = [op |-> "read_eo_file", file |-> file] @@ ReadEoFile(file)
    /\ UNCHANGED <<project, mapper_current_layer, plotter_current_layer>>
    /\ UNCHANGED <<image_layer, eo_layer, current_shift, call, image_dict,
                   eo_dict, eo_items, shifted_dict, results, stats, raw, key,
                   pin, first, search, dialog, selector>>

\* a call plot_eo_files(eo_files)
PlotEoFiles(eo_files) ==
    LET all_records == AllRecords(eo_files)
        layer       == EoVectorLayer(all_records)
    IN /\ IF all_records = <<>>
          THEN /\ ret' = [op |-> "plot_eo_files", eo_files |-> eo_files,
                          returned |-> None]
               /\ UNCHANGED <<project, plotter_current_layer>>
          ELSE /\ Len(project) < MaxLayers
               /\ project' = Append(project, layer)
               /\ plotter_current_layer' = layer
               /\ ret' = [op |-> "plot_eo_files", eo_files |-> eo_files,
                          returned |-> layer]
       /\ UNCHANGED mapper_current_layer
       /\ UNCHANGED <<image_layer, eo_layer, current_shift, call, image_dict,
                      eo_dict, eo_items, shifted_dict, results, stats, raw,
                      key, pin, first, search, dialog, selector>>

\* the JSON documents handed to map_locations: a file that cannot be opened,
\* one that is not JSON, and JSON values (an object is a record of its
\* members, a list the sequence of its items)
JsonRecordFull ==
    [type |-> "object",
     members |-> [filename |-> <<"A", "_", "1", ".", "t", "i", "f">>,
                  latitude |-> 38, longitude |-> 0 - 121, altitude |-> 100,
                  timestamp |-> <<"t", "1">>, capture_id |-> <<"c", "1">>]]

JsonRecordRequired ==
    [type |-> "object",
     members |-> [filename |-> <<"B", "_", "1", ".", "t", "i", "f">>,
                  latitude |-> 39, longitude |-> 0 - 122, altitude |-> 90]]

JsonRecordNoAltitude ==
    [type |-> "object",
     members |-> [filename |-> <<"C", "_", "1", ".", "t", "i", "f">>,
                  latitude |-> 38, longitude |-> 0 - 121]]

JsonNumber == [type |-> "number", value |-> 7]

JsonList(items) == [type |-> "list", items |-> items]

JsonFiles ==
    {[kind |-> "unreadable"],
     [kind |-> "malformed"],
     [kind |-> "json", data |-> JsonRecordFull],
     [kind |-> "json", data |-> JsonList(<<>>)],
     [kind |-> "json", data |-> JsonList(<<JsonRecordFull>>)],
     [kind |-> "json", data |-> JsonList(<<JsonRecordFull, JsonRecordRequired>>)],
     [kind |-> "json", data |-> JsonList(<<JsonRecordNoAltitude>>)],
     [kind |-> "json", data |-> JsonList(<<JsonRecordFull, JsonRecordNoAltitude>>)],
     [kind |-> "json", data |-> JsonList(<<JsonRecordRequired, JsonNumber>>)]}

\* required_fields = {'latitude', 'longitude', 'altitude', 'filename'}
RequiredFields == {"latitude", "longitude", "altitude", "filename"}

\* the loop over the records raises: an item without keys(), or
\* missing_fields is not empty
RecordFails(record) ==
    \/ record.type # "object"
    \/ RequiredFields \ DOMAIN record.members # {}

\* A plausible slip: an empty list is refused like a malformed file.
LoadJsonDataRefusingEmpty(json_path) ==
    IF json_path.kind = "unreadable"
    THEN [raised |-> ValueError(<<"Error reading JSON file", "open">>)]
    ELSE IF json_path.kind = "malformed"
    THEN [raised |-> ValueError(<<"Invalid JSON file", "decode">>)]
    ELSE IF json_path.data.type # "list"
    THEN [raised |-> ValueError(<<"Error reading JSON file",
                                  "JSON file must contain a list of image records">>)]
    ELSE IF json_path.data.items = <<>>
    THEN [raised |-> ValueError(<<"Error reading JSON file", "empty">>)]
    ELSE IF \E i \in 1..Len(json_path.data.items) :
                RecordFails(json_path.data.items[i])
    THEN [raised |-> ValueError(<<"Error reading JSON file",
                                  "Record missing required fields">>)]
    ELSE [returned |-> json_path.data.items]

\* load_json_data(json_path): the list of records, or the ValueError
LoadJsonData(json_path) ==
    IF json_path.kind = "unreadable"
    THEN [raised |-> ValueError(<<"Error reading JSON file", "open">>)]
    ELSE IF json_path.kind = "malformed"
    THEN [raised |-> ValueError(<<"Invalid JSON file", "decode">>)]
    ELSE IF json_path.data.type # "list"
    THEN [raised |-> ValueError(<<"Error reading JSON file",
                                  "JSON file must contain a list of image records">>)]
    ELSE IF \E i \in 1..Len(json_path.data.items) :
                RecordFails(json_path.data.items[i])
    THEN [raised |-> ValueError(<<"Error reading JSON file",
                                  "Record missing required fields">>)]
    ELSE [returned |-> json_path.data.items]

\* record.get(field, '')
GetOr(record, field) ==
    IF field \in DOMAIN record.members THEN record.members[field] ELSE <<>>

\* LocationMapper.create_vector_layer(image_data): the layer built
ImageVectorLayer(image_data) ==
    [name     |-> <<"Image Locations">>,
     crs      |-> "EPSG:4326",
     fields   |-> <<"filename", "altitude", "timestamp", "capture_id">>,
     features |-> [i \in 1..Len(image_data) |->
                     [filename   |-> image_data[i].members.filename,
                      altitude   |-> image_data[i].members.altitude,
                      timestamp  |-> GetOr(image_data[i], "timestamp"),
                      capture_id |-> GetOr(image_data[i], "capture_id"),
                      geometry   |-> [x |-> image_data[i].members.longitude,
                                      y |-> image_data[i].members.latitude]]]]

\* geom.transform(transform): the point, carried from one CRS to another
Transform(geometry, source_crs, target_crs) ==
    [x |-> geometry.x, y |-> geometry.y, from |-> source_crs, to |-> target_crs]

\* the layer update_layer_crs builds from current_layer
TransformedLayer(layer, output_crs) ==
    [name     |-> layer.name \o <<" (UTM)">>,
     crs      |-> output_crs,
     fields   |-> layer.fields,
     features |-> [i \in 1..Len(layer.features) |->
                     [filename   |-> layer.features[i].filename,
                      altitude   |-> layer.features[i].altitude,
                      timestamp  |-> layer.features[i].timestamp,
                      capture_id |-> layer.features[i].capture_id,
                      geometry   |-> Transform(layer.features[i].geometry,
                                               "EPSG:4326", output_crs)]]]

\* project.removeMapLayer of the layer at place k
RemoveAt(layers, k) ==
    SubSeq(layers, 1, k - 1) \o SubSeq(layers, k + 1, Len(layers))

\* A plausible slip: the records before the first bad one are mapped before
\* the error is raised.
MapLocationsPartial(json_path, transform_to_utm) ==
    LET loaded == LoadJsonData(json_path)
        items  == IF json_path.kind = "json" /\ json_path.data.type = "list"
                  THEN json_path.data.items ELSE <<>>
        good   == SelectSeq(items, LAMBDA r : ~RecordFails(r))
        layer  == ImageVectorLayer(good)
    IN /\ Len(project) < MaxLayers
       /\ project' = Append(project, layer)
       /\ mapper_current_layer' = layer
       /\ ret' = [op |-> "map_locations", json_path |-> json_path,
                  transform_to_utm |-> transform_to_utm] @@
                 (IF "raised" \in DOMAIN loaded THEN loaded
                  ELSE [returned |-> layer])
       /\ UNCHANGED plotter_current_layer
       /\ UNCHANGED <<image_layer, eo_layer, current_shift, call, image_dict,
                      eo_dict, eo_items, shifted_dict, results, stats, raw,
                      key, pin, first, search, dialog, selector>>

\* a call map_locations(json_path, transform_to_utm)
MapLocations(json_path, transform_to_utm) ==
    LET loaded      == LoadJsonData(json_path)
        layer       == ImageVectorLayer(loaded.returned)
        transformed == TransformedLayer(layer, "EPSG:32610")
        final       == IF transform_to_utm THEN transformed ELSE layer
    IN /\ IF "raised" \in DOMAIN loaded
          THEN /\ ret' = [op |-> "map_locations", json_path |-> json_path,
                          transform_to_utm |-> transform_to_utm] @@ loaded
               /\ UNCHANGED <<project, mapper_current_layer>>
          ELSE /\ Len(project) < MaxLayers
               /\ project' =
                     IF transform_to_utm
                     THEN RemoveAt(Append(Append(project, layer), transformed),
                                   Len(project) + 1)
                     ELSE Append(project, layer)
               /\ mapper_current_layer' = final
               /\ ret' = [op |-> "map_locations", json_path |-> json_path,
                          transform_to_utm |-> transform_to_utm,
                          returned |-> final]
       /\ UNCHANGED plotter_current_layer
       /\ UNCHANGED <<image_layer, eo_layer, current_shift, call, image_dict,
                      eo_dict, eo_items, shifted_dict, results, stats, raw,
                      key, pin, first, search, dialog, selector>>

-----------------------------------------------------------------------------
(* ImageFinder (src/image_finder.py).  A directory tree is the sequence of *)
(* its entries in the order rglob('*') lists them, each entry a path (the  *)
(* sequence of names below the root), its kind and, for a file, what       *)
(* Image.open finds in it.                                                 *)

NameSet == <<"a", "S", "E", "T">>

NameInnerSet == <<"b", "S", "E", "T">>

NameSub == <<"s", "u", "b">>

NamePlain == <<"d">>

NameBand1 == <<"i">> \o Suffix

NameOtherBand1 == <<"j">> \o Suffix

NameBand2 == <<"i", "_", "2", ".", "t", "i", "f">>

NoGps == [present |-> FALSE, lat |-> <<0, 0, 0>>, lat_ref |-> "N",
          lon |-> <<0, 0, 0>>, lon_ref |-> "E", altitude |-> 0]

GpsDavis == [present |-> TRUE, lat |-> <<38, 30, 0>>, lat_ref |-> "N",
             lon |-> <<121, 45, 0>>, lon_ref |-> "W", altitude |-> 100]

\* a band image of a MicaSense Altum with its GPS tags
ImgAltum == [opens |-> TRUE, make |-> "MicaSense", model |-> "Altum",
             gps |-> GpsDavis, timestamp |-> <<"t", "1">>,
             capture_id |-> <<"c", "1">>]

\* an image of another camera
ImgOther == [opens |-> TRUE, make |-> "DJI", model |-> "FC", gps |-> GpsDavis,
             timestamp |-> <<"t", "2">>, capture_id |-> <<>>]

\* an Altum image without GPS tags
ImgNoGps == [opens |-> TRUE, make |-> "MicaSense", model |-> "Altum",
             gps |-> NoGps, timestamp |-> <<"t", "3">>, capture_id |-> <<>>]

\* a file Image.open cannot read
ImgCorrupt == [opens |-> FALSE, make |-> "", model |-> "", gps |-> NoGps,
               timestamp |-> <<>>, capture_id |-> <<>>]

Dir(path) == [path |-> path, kind |-> "dir", image |-> ImgCorrupt]

File(path, image) == [path |-> path, kind |-> "file", image |-> image]

Tree(name, entries) ==
    [name |-> name, exists |-> TRUE, is_dir |-> TRUE, entries |-> entries]

\* the root directories handed to process_images
Roots ==
    {[name |-> "gone", exists |-> FALSE, is_dir |-> FALSE, entries |-> <<>>],
     [name |-> "file", exists |-> TRUE, is_dir |-> FALSE, entries |-> <<>>],
     Tree("empty", <<>>),
     Tree("noset", <<Dir(<<NamePlain>>), File(<<NamePlain, NameBand1>>, ImgAltum)>>),
     Tree("bare", <<Dir(<<NameSet>>), File(<<NameSet, NameBand2>>, ImgAltum)>>),
     Tree("flat", <<Dir(<<NameSet>>),
                    File(<<NameSet, NameBand1>>, ImgAltum),
                    File(<<NameSet, NameBand2>>, ImgAltum),
                    File(<<NameSet, NameOtherBand1>>, ImgOther)>>),
     Tree("poor", <<Dir(<<NameSet>>),
                    File(<<NameSet, NameBand1>>, ImgNoGps),
                    File(<<NameSet, NameOtherBand1>>, ImgCorrupt)>>),
     Tree("sub", <<Dir(<<NameSet>>),
                   Dir(<<NameSet, NameSub>>),
                   File(<<NameSet, NameSub, NameBand1>>, ImgAltum)>>),
     Tree("nested", <<Dir(<<NameSet>>),
                      File(<<NameSet, NameOtherBand1>>, ImgNoGps),
                      Dir(<<NameSet, NameInnerSet>>),
                      File(<<NameSet, NameInnerSet, NameBand1>>, ImgAltum)>>)}

\* path p lies below folder
Below(p, folder) ==
    Len(p) > Len(folder) /\ SubSeq(p, 1, Len(folder)) = folder

\* [p for p in dir_path.rglob('*') if p.is_dir()]
SubDirs(entries, folder) ==
    LET below == SelectSeq(entries,
                           LAMBDA e : e.kind = "dir" /\ Below(e.path, folder))
    IN [i \in 1..Len(below) |-> below[i].path]

RECURSIVE FindSetFolders(_, _)
\* _find_set_folders: the walk over the first k entries of the tree
FindSetFolders(entries, k) ==
    IF k = 0 THEN <<>>
    ELSE LET e    == entries[k]
             rest == FindSetFolders(entries, k - 1)
         IN IF e.kind = "dir" /\ EndsWith(e.path[Len(e.path)], <<"S", "E", "T">>)
            THEN Append(rest, e.path) \o SubDirs(entries, e.path)
            ELSE rest

\* folder.rglob('*_1.tif')
RglobBand1(entries, folder) ==
    SelectSeq(entries,
              LAMBDA e : Below(e.path, folder)
                         /\ EndsWith(e.path[Len(e.path)], Suffix))

RECURSIVE FilesOf(_, _)
\* for folder in set_folders: for file_path in folder.rglob('*_1.tif')
FilesOf(entries, set_folders) ==
    IF set_folders = <<>> THEN <<>>
    ELSE FilesOf(entries, SubSeq(set_folders, 1, Len(set_folders) - 1))
            \o RglobBand1(entries, set_folders[Len(set_folders)])

\* _convert_gps_coords(coords, ref), in 3600ths of a degree
ConvertGpsCoords(coords, ref) ==
    LET decimal == 3600 * coords[1] + 60 * coords[2] + coords[3]
    IN [num |-> IF ref \in {"S", "W"} THEN 0 - decimal ELSE decimal,
        den |-> 3600]

\* the image passes the make and model test and _extract_image_data
\* returns a record
IsValidImage(e) ==
    /\ e.image.opens
    /\ e.image.make = "MicaSense" /\ e.image.model = "Altum"
    /\ e.image.gps.present

\* _extract_image_data(img, file_path)
ExtractImageData(e) ==
    [file_path  |-> e.path,
     filename   |-> e.path[Len(e.path)],
     latitude   |-> ConvertGpsCoords(e.image.gps.lat, e.image.gps.lat_ref),
     longitude  |-> ConvertGpsCoords(e.image.gps.lon, e.image.gps.lon_ref),
     altitude   |-> e.image.gps.altitude,
     timestamp  |-> e.image.timestamp,
     capture_id |-> e.image.capture_id]

\* A plausible slip: the closing report of 1.0 after the loop is left out.
ProcessImagesNoFinalReport(root_dir, progress_callback) ==
    LET set_folders  == FindSetFolders(root_dir.entries, Len(root_dir.entries))
        files        == FilesOf(root_dir.entries, set_folders)
        total_files  == Len(files)
        valid        == SelectSeq(files, IsValidImage)
        valid_images == [i \in 1..Len(valid) |-> ExtractImageData(valid[i])]
        invocation   == [op |-> "process_images", root_dir |-> root_dir,
                         progress_callback |-> progress_callback]
    IN /\ ret' =
            IF ~root_dir.exists \/ ~root_dir.is_dir
            THEN invocation @@
                 [raised |-> ValueError(<<"Invalid directory path", root_dir.name>>)]
            ELSE IF set_folders = <<>>
            THEN invocation @@
                 [returned |-> <<>>, set_folders |-> <<>>, progress |-> <<>>,
                  saved |-> [written |-> FALSE, data |-> <<>>]]
            ELSE invocation @@
                 [returned    |-> valid_images,
                  set_folders |-> set_folders,
                  progress    |->
                     IF progress_callback
                     THEN [k \in 1..total_files |->
                              [num |-> k, den |-> total_files]]
                     ELSE <<>>,
                  saved       |-> [written |-> TRUE, data |-> valid_images]]
       /\ UNCHANGED <<project, mapper_current_layer, plotter_current_layer>>
       /\ UNCHANGED <<image_layer, eo_layer, current_shift, call, image_dict,
                      eo_dict, eo_items, shifted_dict, results, stats, raw,
                      key, pin, first, search, dialog, selector>>

\* process_images(root_dir, progress_callback): what it returns, the calls it
\* makes on the callback and the JSON file it writes into the root directory
ProcessImages(root_dir, progress_callback) ==
    LET set_folders  == FindSetFolders(root_dir.entries, Len(root_dir.entries))
        files        == FilesOf(root_dir.entries, set_folders)
        total_files  == Len(files)
        valid        == SelectSeq(files, IsValidImage)
        valid_images == [i \in 1..Len(valid) |-> ExtractImageData(valid[i])]
        invocation   == [op |-> "process_images", root_dir |-> root_dir,
                         progress_callback |-> progress_callback]
    IN /\ ret' =
            IF ~root_dir.exists \/ ~root_dir.is_dir
            THEN invocation @@
                 [raised |-> ValueError(<<"Invalid directory path", root_dir.name>>)]
            ELSE IF set_folders = <<>>
            THEN invocation @@
                 [returned |-> <<>>, set_folders |-> <<>>, progress |-> <<>>,
                  saved |-> [written |-> FALSE, data |-> <<>>]]
            ELSE invocation @@
                 [returned    |-> valid_images,
                  set_folders |-> set_folders,
                  progress    |->
                     IF progress_callback
                     THEN [k \in 1..total_files |->
                              [num |-> k, den |-> total_files]]
                          \o <<[num |-> 1, den |-> 1]>>
                     ELSE <<>>,
                  saved       |-> [written |-> TRUE, data |-> valid_images]]
       /\ UNCHANGED <<project, mapper_current_layer, plotter_current_layer>>
       /\ UNCHANGED <<image_layer, eo_layer, current_shift, call, image_dict,
                      eo_dict, eo_items, shifted_dict, results, stats, raw,
                      key, pin, first, search, dialog, selector>>

-----------------------------------------------------------------------------
(* The analyzer on the layers of the project, as the plugin sets it up:    *)
(* the layers are looked up by name and calculate_distances reads the      *)
(* attributes of their features by field name.                             *)

\* project.mapLayersByName(name)
MapLayersByName(name) == SelectSeq(project, LAMBDA l : l.name = name)

\* a feature with the coordinates of feature.geometry().asPoint()
AsPoint(f) == f @@ [x |-> f.geometry.x, y |-> f.geometry.y]

KeyError(field) == [type |-> "KeyError", message |-> <<field>>]

\* some feature has no attribute of that name: f[field] raises
LacksField(features, field) ==
    \E i \in 1..Len(features) : field \notin DOMAIN features[i]

\* AlignmentAnalyzer(image_layer, eo_layer).calculate_distances(0) on the
\* layers "Image Locations (UTM)" and "EO Positions" of the project
AnalyzeProjectLayers ==
    LET images == MapLayersByName(<<"Image Locations", " (UTM)">>)
        eos    == MapLayersByName(<<"EO Positions">>)
        imgs   == [i \in 1..Len(images[1].features) |-> AsPoint(images[1].features[i])]
        eofs   == [i \in 1..Len(eos[1].features) |-> AsPoint(eos[1].features[i])]
        dict   == EoDict(eofs)
        found  == Matches(ImageDict(imgs), ApplyShift(dict, SortedByTime(dict), 0))
    IN /\ images # <<>>
       /\ eos # <<>>
       /\ ret' = [op |-> "calculate_distances"] @@
                 (IF LacksField(eofs, "photo_id")
                  THEN [raised |-> KeyError("photo_id")]
                  ELSE IF LacksField(eofs, "event_time")
                  THEN [raised |-> KeyError("event_time")]
                  ELSE IF found # <<>> /\ LacksField(eofs, "ellipsoid_height")
                  THEN [raised |-> KeyError("ellipsoid_height")]
                  ELSE [returned |-> found])
       /\ UNCHANGED <<project, mapper_current_layer, plotter_current_layer>>
       /\ UNCHANGED <<image_layer, eo_layer, current_shift, call, image_dict,
                      eo_dict, eo_items, shifted_dict, results, stats, raw,
                      key, pin, first, search, dialog, selector>>

InitIO ==
    /\ image_layer = <<>>
    /\ eo_layer = <<>>
    /\ current_shift = 0
    /\ call = NoCall
    /\ image_dict = <<>>
    /\ eo_dict = <<>>
    /\ eo_items = <<>>
    /\ shifted_dict = <<>>
    /\ results = <<>>
    /\ stats = None
    /\ raw = <<>>
    /\ key = <<>>
    /\ pin = None
    /\ first = None
    /\ search = None
    /\ dialog = None
    /\ NoIo

NextIO ==
    \/ \E json_path \in JsonFiles, transform_to_utm \in BOOLEAN :
          MapLocations(json_path, transform_to_utm)
    \/ \E eo_files \in EoFileLists : PlotEoFiles(eo_files)
    \/ \E file \in EoFiles : ReadEoFileCall(file)
    \/ \E root_dir \in Roots, progress_callback \in BOOLEAN :
          ProcessImages(root_dir, progress_callback)
    \/ AnalyzeProjectLayers

SpecIO == InitIO /\ [][NextIO]_vars

-----------------------------------------------------------------------------
(* The LocationMapper driven method by method: create_vector_layer,        *)
(* update_layer_crs and map_locations in any order.  Every layer the       *)
(* mapper adds goes                                                        *)
(* to the end of the project and becomes current_layer, so current_layer   *)
(* is the last layer of the project that equals it.                        *)

MaxUpdates == 2

\* the lists of records handed to create_vector_layer
ImageDataLists ==
    {<<>>, <<JsonRecordFull>>, <<JsonRecordFull, JsonRecordRequired>>}

\* the place of current_layer in the project
PlaceOf(layer) ==
    CHOOSE k \in 1..Len(project) :
       /\ project[k] = layer
       /\ \A j \in (k + 1)..Len(project) : project[j] # layer

\* a call create_vector_layer(image_data)
CreateVectorLayer(image_data) ==
    LET layer == ImageVectorLayer(image_data)
    IN /\ Len(project) < MaxLayers
       /\ project' = Append(project, layer)
       /\ mapper_current_layer' = layer
       /\ ret' = [op |-> "create_vector_layer", image_data |-> image_data,
                  returned |-> layer]
       /\ UNCHANGED plotter_current_layer
       /\ UNCHANGED <<image_layer, eo_layer, current_shift, call, image_dict,
                      eo_dict, eo_items, shifted_dict, results, stats, raw,
                      key, pin, first, search, dialog, selector>>

\* A plausible slip: the layer that was replaced stays in the project.
UpdateLayerCrsKeepingOriginal(output_crs) ==
    LET transformed == TransformedLayer(mapper_current_layer, output_crs)
    IN /\ IF mapper_current_layer = None
          THEN /\ ret' = [op |-> "update_layer_crs", output_crs |-> output_crs,
                          raised |-> ValueError(<<"No layer has been created yet">>)]
               /\ UNCHANGED <<project, mapper_current_layer>>
          ELSE /\ Len(mapper_current_layer.name) <= MaxUpdates
               /\ Len(project) < MaxLayers
               /\ project' = Append(project, transformed)
               /\ mapper_current_layer' = transformed
               /\ ret' = [op |-> "update_layer_crs", output_crs |-> output_crs,
                          returned |-> None]
       /\ UNCHANGED plotter_current_layer
       /\ UNCHANGED <<image_layer, eo_layer, current_shift, call, image_dict,
                      eo_dict, eo_items, shifted_dict, results, stats, raw,
                      key, pin, first, search, dialog, selector>>

\* a call update_layer_crs(output_crs)
UpdateLayerCrs(output_crs) ==
    LET transformed == TransformedLayer(mapper_current_layer, output_crs)
    IN /\ IF mapper_current_layer = None
          THEN /\ ret' = [op |-> "update_layer_crs", output_crs |-> output_crs,
                          raised |-> ValueError(<<"No layer has been created yet">>)]
               /\ UNCHANGED <<project, mapper_current_layer>>
          ELSE /\ Len(mapper_current_layer.name) <= MaxUpdates
               /\ project' = Append(RemoveAt(project, PlaceOf(mapper_current_layer)),
                                    transformed)
               /\ mapper_current_layer' = transformed
               /\ ret' = [op |-> "update_layer_crs", output_crs |-> output_crs,
                          returned |-> None]
       /\ UNCHANGED plotter_current_layer
       /\ UNCHANGED <<image_layer, eo_layer, current_shift, call, image_dict,
                      eo_dict, eo_items, shifted_dict, results, stats, raw,
                      key, pin, first, search, dialog, selector>>

NextMapper ==
    \/ \E image_data \in ImageDataLists : CreateVectorLayer(image_data)
    \/ UpdateLayerCrs("EPSG:32610")
    \/ \E json_path \in JsonFiles, transform_to_utm \in BOOLEAN :
          MapLocations(json_path, transform_to_utm)

SpecMapper == InitIO /\ [][NextMapper]_vars

-----------------------------------------------------------------------------
(* EOFinder and its EOFileSelector dialog (src/eo_finder.py).  The dialog  *)
(* is modal: get_user_selected_files returns when it is accepted or        *)
(* rejected.  Its checkboxes are kept in the order of file_paths; checked  *)
(* holds isChecked() of each.                                              *)

ReadLimit == 1000

DotTxt == <<".", "t", "x", "t">>

\* self.search_terms = {'altum', 'eo'}
SearchTerms == {<<"a", "l", "t", "u", "m">>, <<"e", "o">>}

\* Path.suffix: the name from its last dot on, if that dot is not the first
\* character
PathSuffix(name) ==
    LET dots == {i \in 2..Len(name) : name[i] = "."}
    IN IF dots = {} THEN <<>>
       ELSE SubSeq(name, CHOOSE i \in dots : \A j \in dots : j <= i, Len(name))

TextFile(path, readable, content) ==
    [path |-> path, readable |-> readable, content |-> content]

FileAltum ==
    TextFile(<< <<"a", ".", "t", "x", "t">> >>, TRUE,
             <<"A", "l", "t", "u", "m", " ", "E", "O">>)

FileGeo ==
    TextFile(<< <<"s", "u", "b">>, <<"b", ".", "t", "x", "t">> >>, TRUE,
             <<"g", "e", "o">>)

FileLog ==
    TextFile(<< <<"c", ".", "t", "x", "t">> >>, TRUE, <<"l", "o", "g">>)

FileCsv ==
    TextFile(<< <<"d", ".", "c", "s", "v">> >>, TRUE,
             <<"a", "l", "t", "u", "m">>)

\* a text file that cannot be decoded as UTF-8
FileBinary ==
    TextFile(<< <<"e", ".", "t", "x", "t">> >>, FALSE, <<"e", "o">>)

FileOther ==
    TextFile(<< <<"f", ".", "t", "x", "t">> >>, TRUE, <<"E", "o", " ", "2">>)

FileNotes ==
    TextFile(<< <<"s", "u", "b">>, <<"g", ".", "t", "x", "t">> >>, TRUE,
             <<"v", "i", "d", "e", "o">>)

\* the directories handed to find_eo_files: the files below them, in the
\* order rglob lists them
EoRoots ==
    {[name |-> "gone", exists |-> FALSE, is_dir |-> FALSE, files |-> <<>>],
     [name |-> "file", exists |-> TRUE, is_dir |-> FALSE, files |-> <<>>],
     [name |-> "empty", exists |-> TRUE, is_dir |-> TRUE, files |-> <<>>],
     [name |-> "none", exists |-> TRUE, is_dir |-> TRUE,
      files |-> <<FileLog, FileCsv, FileBinary>>],
     [name |-> "two", exists |-> TRUE, is_dir |-> TRUE,
      files |-> <<FileAltum, FileLog, FileGeo>>],
     [name |-> "three", exists |-> TRUE, is_dir |-> TRUE,
      files |-> <<FileAltum, FileCsv, FileGeo, FileBinary, FileOther>>],
     [name |-> "deep", exists |-> TRUE, is_dir |-> TRUE,
      files |-> <<FileGeo, FileNotes>>],
     [name |-> "four", exists |-> TRUE, is_dir |-> TRUE,
      files |-> <<FileOther, FileAltum, FileNotes, FileLog, FileGeo>>]}

\* the lists handed to get_user_selected_files directly
CandidateLists ==
    {<<>>, <<FileLog.path>>, <<FileAltum.path, FileAltum.path>>,
     <<FileCsv.path, FileLog.path, FileAltum.path>>}

\* _is_potential_eo_file(file_path)
IsPotentialEoFile(file) ==
    /\ Lower(PathSuffix(file.path[Len(file.path)])) = DotTxt
    /\ file.readable
    /\ LET content == Lower(SubSeq(file.content, 1,
                                   IF Len(file.content) < ReadLimit
                                   THEN Len(file.content) ELSE ReadLimit))
       IN \E term \in SearchTerms : Contains(content, term)

\* find_eo_files(root_dir), for a root that is a directory
FindEoFiles(root_dir) ==
    LET found == SelectSeq(root_dir.files,
                           LAMBDA f : EndsWith(f.path[Len(f.path)], DotTxt)
                                      /\ IsPotentialEoFile(f))
    IN [i \in 1..Len(found) |-> found[i].path]

\* EOFileSelector(file_paths): a checkbox for each path, none checked
SetupSelector(op, file_paths) ==
    [op         |-> op,
     file_paths |-> file_paths,
     checked    |-> [i \in 1..Len(file_paths) |-> FALSE]]

\* A plausible slip: the attribute selected_files, which is never filled, is
\* returned in place of the checked boxes.
GetSelectedFilesAttribute(d) == <<>>

RECURSIVE GetSelectedFilesUpTo(_, _)
GetSelectedFilesUpTo(d, n) ==
    IF n = 0 THEN <<>>
    ELSE IF d.checked[n]
         THEN Append(GetSelectedFilesUpTo(d, n - 1), d.file_paths[n])
         ELSE GetSelectedFilesUpTo(d, n - 1)

\* EOFileSelector.get_selected_files()
GetSelectedFiles(d) == GetSelectedFilesUpTo(d, Len(d.file_paths))

selectorUnchanged ==
    UNCHANGED <<image_layer, eo_layer, current_shift, call, image_dict,
                eo_dict, eo_items, shifted_dict, results, stats, raw, key,
                pin, first, search, dialog, project, mapper_current_layer,
                plotter_current_layer>>

\* a call find_and_select_eo_files(root_dir), up to dialog.exec_()
FindAndSelectEoFiles(root_dir) ==
    LET invocation      == [op |-> "find_and_select_eo_files", root_dir |-> root_dir]
        potential_files == FindEoFiles(root_dir)
    IN /\ selector = None
       /\ IF ~root_dir.exists \/ ~root_dir.is_dir
          THEN /\ ret' = invocation @@
                         [raised |-> ValueError(<<"Invalid directory path",
                                                  root_dir.name>>)]
               /\ selector' = None
          ELSE IF potential_files = <<>>
          THEN /\ ret' = invocation @@ [returned |-> <<>>]
               /\ selector' = None
          ELSE /\ ret' = invocation @@ [waiting |-> potential_files]
               /\ selector' = SetupSelector("find_and_select_eo_files",
                                            potential_files)
       /\ selectorUnchanged

\* a call get_user_selected_files(file_paths), up to dialog.exec_()
GetUserSelectedFiles(file_paths) ==
    /\ selector = None
    /\ ret' = [op |-> "get_user_selected_files", waiting |-> file_paths]
    /\ selector' = SetupSelector("get_user_selected_files", file_paths)
    /\ selectorUnchanged

\* the places of the checkboxes in the longest list of candidates
CheckboxPlaces == 1..4

\* the user clicks the i-th checkbox
Toggle(i) ==
    /\ selector # None
    /\ i \in 1..Len(selector.file_paths)
    /\ selector' = [selector EXCEPT !.checked[i] = ~@]
    /\ UNCHANGED ret
    /\ selectorUnchanged

\* EOFileSelector.select_all()
SelectAll ==
    /\ selector # None
    /\ selector' = [selector EXCEPT
                       !.checked = [i \in 1..Len(selector.file_paths) |-> TRUE]]
    /\ UNCHANGED ret
    /\ selectorUnchanged

\* EOFileSelector.clear_all()
ClearAll ==
    /\ selector # None
    /\ selector' = [selector EXCEPT
                       !.checked = [i \in 1..Len(selector.file_paths) |-> FALSE]]
    /\ UNCHANGED ret
    /\ selectorUnchanged

\* OK: exec_() returns Accepted and the call returns get_selected_files()
Accept ==
    /\ selector # None
    /\ ret' = [op |-> selector.op, candidates |-> selector.file_paths,
               accepted |-> TRUE, returned |-> GetSelectedFiles(selector)]
    /\ selector' = None
    /\ selectorUnchanged

\* Cancel: exec_() returns Rejected and the call returns []
Reject ==
    /\ selector # None
    /\ ret' = [op |-> selector.op, candidates |-> selector.file_paths,
               accepted |-> FALSE, returned |-> <<>>]
    /\ selector' = None
    /\ selectorUnchanged

NextSelect ==
    \/ \E root_dir \in EoRoots : FindAndSelectEoFiles(root_dir)
    \/ \E file_paths \in CandidateLists : GetUserSelectedFiles(file_paths)
    \/ \E i \in CheckboxPlaces : Toggle(i)
    \/ SelectAll
    \/ ClearAll
    \/ Accept
    \/ Reject

SpecSelect == InitIO /\ [][NextSelect]_vars

-----------------------------------------------------------------------------
(* What the claims are stated with.                                        *)

Called == call.op \in {"calculate_distances", "get_alignment_stats"}

\* a dict as a function from its keys
AsMap(d) == [k \in DictKeys(d) |-> DictGet(d, k)]

\* the number of records in the sorted EO list
N == Len(eo_items)

\* the record of the image layer, and of the EO layer, that a key belongs to:
\* the last feature of the layer whose name gives that key
OwnImage(k) ==
    image_layer[CHOOSE i \in 1..Len(image_layer) :
        /\ ExtractBaseFilename(image_layer[i].filename) = k
        /\ \A j \in (i + 1)..Len(image_layer) :
              ExtractBaseFilename(image_layer[j].filename) # k]

OwnEo(k) ==
    eo_layer[CHOOSE i \in 1..Len(eo_layer) :
        /\ ExtractBaseFilename(eo_layer[i].photo_id) = k
        /\ \A j \in (i + 1)..Len(eo_layer) :
              ExtractBaseFilename(eo_layer[j].photo_id) # k]

ImageKeys == {ExtractBaseFilename(image_layer[i].filename) : i \in 1..Len(image_layer)}

EoKeys == {ExtractBaseFilename(eo_layer[i].photo_id) : i \in 1..Len(eo_layer)}

\* eo_items is sorted ascending by event time
ItemsSorted ==
    \A i \in 1..N : \A j \in i..N :
        eo_items[i].value.event_time <= eo_items[j].value.event_time

-----------------------------------------------------------------------------
\* C1 (as stated): after a call with a non-zero shift s, the record at sorted
\* index i is assigned to the key of the record at sorted index (i + s) mod n,
\* for every i in 0..n-1.
C1_RecordGoesToKeyAhead ==
    (Called /\ call.shift # 0) =>
        /\ ItemsSorted
        /\ \A i \in 0..(N - 1) :
              DictGet(shifted_dict, eo_items[((i + call.shift) % N) + 1].key)
                = eo_items[i + 1].value

\* C1 (amended): after a call with a non-zero shift s, the KEY at sorted index i
\* is assigned the RECORD at sorted index (i + s) mod n, for every i in 0..n-1
\* (so the record at index i goes to the key at index (i - s) mod n); the
\* sorted list is ascending by event time and negative s wraps around too.
C1_KeyTakesRecordAhead ==
    (Called /\ call.shift # 0) =>
        /\ ItemsSorted
        /\ DictKeys(shifted_dict) = {eo_items[i].key : i \in 1..N}
        /\ \A i \in 0..(N - 1) :
              /\ DictGet(shifted_dict, eo_items[i + 1].key)
                    = eo_items[((i + call.shift) % N) + 1].value
              /\ DictGet(shifted_dict, eo_items[((i - call.shift) % N) + 1].key)
                    = eo_items[i + 1].value

\* C1 witness: a negative shift over three records whose sorted order is not
\* the feature order, where the two directions of rotation differ.
C1_Witness ==
    /\ Called
    /\ call.shift = 0 - 1
    /\ N = 3
    /\ eo_items[1].value.fid # 1
    /\ DictGet(shifted_dict, eo_items[1].key) = eo_items[3].value

-----------------------------------------------------------------------------
\* C2: shift identity.  After a call with shift 0 the mapping used for matching
\* is the mapping built from the layer: every key of the EO layer is mapped to
\* its own record (the last feature giving that key), and every result pairs
\* an image key with the EO record of that same key; empty layers, duplicate
\* keys and equal event times included.
C2_ShiftIdentity ==
    (Called /\ call.shift = 0) =>
        /\ DictKeys(shifted_dict) = EoKeys
        /\ \A k \in EoKeys : DictGet(shifted_dict, k) = OwnEo(k)
        /\ AsMap(shifted_dict) = AsMap(eo_dict)
        /\ \A i \in 1..Len(results) :
              LET r == results[i]
              IN /\ r.image_id \in EoKeys
                 /\ r.eo_time = OwnEo(r.image_id).event_time
                 /\ r.dx = OwnImage(r.image_id).x - OwnEo(r.image_id).x
                 /\ r.dy = OwnImage(r.image_id).y - OwnEo(r.image_id).y
                 /\ r.dz = OwnImage(r.image_id).altitude
                             - OwnEo(r.image_id).ellipsoid_height

\* C2 witness: shift 0 on an EO layer with a duplicate key and equal event
\* times, with a match.
C2_Witness ==
    /\ Called
    /\ call.shift = 0
    /\ Len(eo_layer) = 3
    /\ N = 2
    /\ eo_items[1].value.event_time = eo_items[2].value.event_time
    /\ results # <<>>

-----------------------------------------------------------------------------
\* C3 (as stated): the mapping, the results and the statistics of a call with
\* shift s are those of shift s + n, n = len(seq) the number of EO records of
\* the layer.
C3_PeriodIsLayerLength ==
    Called =>
        LET other == ApplyShift(eo_dict, eo_items, call.shift + Len(eo_layer))
        IN /\ AsMap(shifted_dict) = AsMap(other)
           /\ results = Matches(image_dict, other)

\* C3 (amended): the mapping, the results and the statistics of a call with
\* shift s are those of shift s + n and of shift s - n, where n is the number
\* of DISTINCT KEYS of the EO layer (the length of the sorted list), which is
\* len(seq) only when no two EO records give the same key.
C3_PeriodIsKeyCount ==
    Called =>
        LET up   == ApplyShift(eo_dict, eo_items, call.shift + N)
            down == ApplyShift(eo_dict, eo_items, call.shift - N)
        IN /\ N = Cardinality(EoKeys)
           /\ AsMap(shifted_dict) = AsMap(up)
           /\ AsMap(shifted_dict) = AsMap(down)
           /\ results = Matches(image_dict, up)
           /\ results = Matches(image_dict, down)
           /\ call.op = "get_alignment_stats" =>
                 /\ stats = StatsOf(Matches(image_dict, up))
                 /\ stats = StatsOf(Matches(image_dict, down))

\* C3 witness: a rotating shift over three distinct keys, with a match.
C3_Witness ==
    /\ call.op = "get_alignment_stats"
    /\ call.shift = 1
    /\ N = 3
    /\ Len(eo_layer) = 3
    /\ stats.matches >= 1

-----------------------------------------------------------------------------
\* C4: for every shift the mapping used for matching is a permutation of the
\* unshifted one: the same keys, and every record of the unshifted mapping
\* under exactly one key; so the matched keys and the match count are those
\* of the unshifted mapping, whatever the shift.
C4_ShiftIsPermutation ==
    Called =>
        LET unshiftedValues == {eo_dict[i].value : i \in 1..Len(eo_dict)}
            matched == ImageKeys \cap EoKeys
        IN /\ DictKeys(shifted_dict) = DictKeys(eo_dict)
           /\ Len(shifted_dict) = Len(eo_dict)
           /\ \A v \in unshiftedValues :
                 Cardinality({i \in 1..Len(shifted_dict) : shifted_dict[i].value = v}) = 1
           /\ \A i, j \in 1..Len(shifted_dict) :
                 shifted_dict[i].key = shifted_dict[j].key => i = j
           /\ {results[i].image_id : i \in 1..Len(results)} = matched
           /\ Len(results) = Cardinality(matched)
           /\ call.op = "get_alignment_stats" => stats.matches = Cardinality(matched)

\* C4 witness: statistics for a rotating shift over three keys with two matches.
C4_Witness ==
    /\ call.op = "get_alignment_stats"
    /\ call.shift = 2
    /\ N = 3
    /\ stats.matches = 2
    /\ AsMap(shifted_dict) # AsMap(eo_dict)

-----------------------------------------------------------------------------
\* C5: degenerate case.  When the EO layer has no record or no key occurs in
\* both layers, get_alignment_stats returns, for every shift, match count 0
\* with avg_3d, avg_2d and max_3d positive infinity.
C5_DegenerateStats ==
    (call.op = "get_alignment_stats"
        /\ (eo_layer = <<>> \/ ImageKeys \cap EoKeys = {})) =>
        /\ results = <<>>
        /\ stats = [avg_3d |-> Inf, avg_2d |-> Inf, max_3d |-> Inf, matches |-> 0]

\* C5 witness: a non-zero shift on an empty EO layer with images present.
C5_Witness ==
    /\ call.op = "get_alignment_stats"
    /\ call.shift # 0
    /\ eo_layer = <<>>
    /\ image_layer # <<>>
    /\ stats.matches = 0

-----------------------------------------------------------------------------
\* C6: calculate_distances emits exactly one result per key present in both
\* the image mapping and the shifted EO mapping and none for another key; in
\* each, dx, dy, dz are the image's components minus those of the EO record
\* assigned to the key under the shift, distance_2d^2 = dx^2 + dy^2,
\* distance_3d^2 = dx^2 + dy^2 + dz^2, image_time is the image's timestamp and
\* eo_time the event time of the assigned EO record.
C6_OneResultPerMatch ==
    Called =>
        /\ {results[i].image_id : i \in 1..Len(results)}
              = ImageKeys \cap DictKeys(shifted_dict)
        /\ \A i, j \in 1..Len(results) :
              results[i].image_id = results[j].image_id => i = j
        /\ \A i \in 1..Len(results) :
              LET r   == results[i]
                  img == OwnImage(r.image_id)
                  eo  == DictGet(shifted_dict, r.image_id)
              IN /\ r.dx = img.x - eo.x
                 /\ r.dy = img.y - eo.y
                 /\ r.dz = img.altitude - eo.ellipsoid_height
                 /\ r.distance_2d >= 0
                 /\ r.distance_2d * r.distance_2d = r.dx * r.dx + r.dy * r.dy
                 /\ r.distance_3d >= 0
                 /\ r.distance_3d * r.distance_3d
                       = r.dx * r.dx + r.dy * r.dy + r.dz * r.dz
                 /\ r.image_time = img.timestamp
                 /\ r.eo_time = eo.event_time

\* C6 witness: two results under a non-zero shift, one of them with horizontal
\* and vertical offsets, while a key of the EO layer has no image.
C6_Witness ==
    /\ call.op = "calculate_distances"
    /\ call.shift # 0
    /\ Len(results) = 2
    /\ \E i \in 1..2 : results[i].dx # 0 /\ results[i].dz # 0
    /\ DictKeys(shifted_dict) \ ImageKeys # {}

-----------------------------------------------------------------------------
\* the sum of f over the indices idx of the result list
RECURSIVE SumOver(_, _)
SumOver(idx, which) ==
    IF idx = {} THEN 0
    ELSE LET i == CHOOSE i \in idx : TRUE
         IN (IF which = 3 THEN results[i].distance_3d ELSE results[i].distance_2d)
            + SumOver(idx \ {i}, which)

\* C7: for a non-empty result list get_alignment_stats returns avg_3d and
\* avg_2d with avg * count = the sum of distance_3d, of distance_2d, over the
\* results, max_3d the largest distance_3d among the results (so max_3d >=
\* avg_3d), and a match count equal to the number of results.
C7_StatsAreMeans ==
    (call.op = "get_alignment_stats" /\ results # <<>>) =>
        LET idx == 1..Len(results)
        IN /\ stats.matches = Len(results)
           /\ stats.avg_3d.den > 0 /\ stats.avg_2d.den > 0 /\ stats.max_3d.den > 0
           /\ stats.avg_3d.num * stats.matches = SumOver(idx, 3) * stats.avg_3d.den
           /\ stats.avg_2d.num * stats.matches = SumOver(idx, 2) * stats.avg_2d.den
           /\ \E i \in idx : stats.max_3d.num = results[i].distance_3d * stats.max_3d.den
           /\ \A i \in idx : stats.max_3d.num >= results[i].distance_3d * stats.max_3d.den
           /\ stats.max_3d.num * stats.avg_3d.den >= stats.avg_3d.num * stats.max_3d.den

\* C7 witness: statistics over two results with different 3D distances.
C7_Witness ==
    /\ call.op = "get_alignment_stats"
    /\ Len(results) = 2
    /\ results[1].distance_3d # results[2].distance_3d
    /\ results[1].distance_3d # results[1].distance_2d
    /\ stats.max_3d.num * stats.avg_3d.den > stats.avg_3d.num * stats.max_3d.den

-----------------------------------------------------------------------------
\* C10: when several records of a layer give the same key, the mapping built
\* by calculate_distances keeps exactly one record for the key, the one that
\* is last in the layer's feature order; for the image and for the EO layer.
C10_LastRecordWins ==
    Called =>
        /\ DictKeys(image_dict) = ImageKeys
        /\ Len(image_dict) = Cardinality(ImageKeys)
        /\ \A k \in ImageKeys : DictGet(image_dict, k) = OwnImage(k)
        /\ DictKeys(eo_dict) = EoKeys
        /\ Len(eo_dict) = Cardinality(EoKeys)
        /\ \A k \in EoKeys : DictGet(eo_dict, k) = OwnEo(k)

\* C10 witness: both layers hold two records of one key, and the mappings hold
\* the later one.
C10_Witness ==
    /\ Called
    /\ Len(image_layer) = 2 /\ Len(image_dict) = 1
    /\ image_dict[1].value.fid = 2
    /\ Len(eo_layer) = 3 /\ Len(eo_dict) = 2
    /\ \E i \in 1..2 : eo_dict[i].value.fid = 3 /\ OwnEo(eo_dict[i].key).fid = 3
                       /\ eo_layer[1].photo_id = eo_layer[3].photo_id

-----------------------------------------------------------------------------
Extracted == call.op = "_extract_base_filename"

\* C8: an image file name and its EO photo-id get the same key: for every
\* identifier id, the key of id followed by "_1.tif" is the key of id; and
\* when id holds no "_1.tif" and no surrounding whitespace (as "DJI_0001"),
\* both keys are id itself.
C8_SameKeyWithSuffix ==
    Extracted =>
        /\ ExtractBaseFilename(raw \o Suffix) = key
        /\ (~Contains(raw, Suffix) /\ Strip(raw) = raw) =>
              key = raw /\ ExtractBaseFilename(raw \o Suffix) = raw

\* C8 witness: an identifier that itself ends in "_1.tif" and starts with
\* whitespace has been given its key.
C8_Witness ==
    /\ Extracted
    /\ EndsWith(raw, Suffix)
    /\ Len(raw) > Len(Suffix)
    /\ raw[1] \in Whitespace
    /\ key = <<"A">>

-----------------------------------------------------------------------------
\* the record of one sensor read in the role of the other
AsImage(eo) ==
    [x |-> eo.x, y |-> eo.y, altitude |-> eo.ellipsoid_height,
     timestamp |-> eo.event_time]

AsEo(img) ==
    [x |-> img.x, y |-> img.y, ellipsoid_height |-> img.altitude,
     event_time |-> img.timestamp]

\* C20: distance symmetry.  Swapping the image and the EO role of a matched
\* pair negates dx, dy and dz and leaves distance_2d and distance_3d as they
\* are; both distances are non-negative and distance_2d <= distance_3d.
C20_DistanceSymmetry ==
    Called =>
        \A i \in 1..Len(results) :
            LET r       == results[i]
                img     == OwnImage(r.image_id)
                eo      == DictGet(shifted_dict, r.image_id)
                swapped == MatchResult(r.image_id, AsImage(eo), AsEo(img))
            IN /\ swapped.dx = 0 - r.dx
               /\ swapped.dy = 0 - r.dy
               /\ swapped.dz = 0 - r.dz
               /\ swapped.distance_2d = r.distance_2d
               /\ swapped.distance_3d = r.distance_3d
               /\ r.distance_2d >= 0
               /\ r.distance_3d >= 0
               /\ r.distance_2d <= r.distance_3d

\* C20 witness: a matched pair with horizontal and vertical offsets.
C20_Witness ==
    /\ Called
    /\ \E i \in 1..Len(results) :
          /\ results[i].dx # 0 /\ results[i].dy # 0 /\ results[i].dz # 0
          /\ results[i].distance_2d < results[i].distance_3d

-----------------------------------------------------------------------------
\* C13: recomputation for a pinned shift is idempotent and free of side
\* effects.  After any sequence of calculate_distances / get_alignment_stats
\* calls, a call with the pinned shift returns what the first call with that
\* shift returned, and no call changes the image layer, the EO layer or the
\* analyzer's current_shift.
C13_PinnedShiftIdempotent ==
    /\ [](Called /\ pin = [shift |-> call.shift] =>
            /\ first = [returned |-> results]
            /\ call.op = "get_alignment_stats" => stats = StatsOf(first.returned))
    /\ [][/\ image_layer' = image_layer
          /\ eo_layer' = eo_layer
          /\ current_shift' = current_shift]_vars

\* C13 witness: the pinned shift is called again after a call with another
\* shift, and returns a non-empty list.
C13_Witness ==
    /\ Called
    /\ pin = [shift |-> call.shift]
    /\ call.shift # 0
    /\ first # None
    /\ results # <<>>
    /\ Len(eo_items) = 3

-----------------------------------------------------------------------------
\* what calculate_distances returns for a shift on the layers as they are
ResultsFor(shift) ==
    Matches(ImageDict(image_layer),
            ApplyShift(EoDict(eo_layer), SortedByTime(EoDict(eo_layer)), shift))

\* C12 (as stated): when no key is in both layers, the outcome is reported
\* as an explicit no-match condition, and never as infinite or zero
\* statistics presented like an ordinary result.
C12_NoMatchIsReportedExplicitly ==
    (dialog # None /\ ImageKeys \cap EoKeys = {}) =>
        /\ dialog.avg_3d_label.value # Format2f(Inf)
        /\ dialog.avg_2d_label.value # Format2f(Inf)
        /\ dialog.max_dist_label.value # Format2f(Inf)
        /\ dialog.matches_label # [caption |-> "Matching Points", value |-> 0]

-----------------------------------------------------------------------------
\* C14: after any sequence of shift changes, once on_shift_changed(v) has
\* returned, the summary statistics and the details table both show the
\* results computed for v, the most recent value, and alignmentChanged(v) has
\* been emitted, after the display was updated.
C14_DisplayShowsLatestShift ==
    (dialog # None /\ dialog.handler = "on_shift_changed") =>
        LET v  == dialog.shift_spinbox
            st == StatsOf(ResultsFor(v))
        IN /\ dialog.current_shift = v
           /\ dialog.avg_3d_label.value = Format2f(st.avg_3d)
           /\ dialog.avg_2d_label.value = Format2f(st.avg_2d)
           /\ dialog.max_dist_label.value = Format2f(st.max_3d)
           /\ dialog.matches_label.value = st.matches
           /\ dialog.details_table = TableRows(ResultsFor(v))
           /\ dialog.events = <<[event |-> "update_results", shift |-> v],
                                [event |-> "alignmentChanged", shift |-> v]>>

\* C14 witness: the spinbox is back at 0, by a shift change, over layers with
\* a match whose distances differ from those first shown.
C14_Witness ==
    /\ dialog # None
    /\ dialog.handler = "on_shift_changed"
    /\ dialog.shift_spinbox = 0
    /\ Len(dialog.details_table) = 2
    /\ ResultsFor(1) # ResultsFor(0)

-----------------------------------------------------------------------------
Searched == search # None

Found == Searched /\ search.outcome = "found"

\* the least 3D distance among the results of a shift is 0, and so is avg_3d
ZeroAt(s) == StatsFor(s).matches >= 1 /\ StatsFor(s).avg_3d.num = 0

\* C11: best_shift evaluates every integer shift of [lo, hi] and returns the
\* shift with the least avg_3d, ties broken by the smallest absolute shift
\* and then by the smallest shift; in particular, when exactly one shift s0
\* of the range has distance 0 and every other has more, it returns s0 with
\* a match count of at least 1.
C11_BestShiftIsLeast ==
    Found =>
        LET b     == search.best_shift
            range == search.lo..search.hi
            at    == search.per_shift
        IN /\ DOMAIN at = range
           /\ \A s \in range : at[s] = StatsFor(s)
           /\ b \in range
           /\ search.best_stats = at[b]
           /\ \A s \in range \ {b} :
                 LET x == at[b].avg_3d
                     y == at[s].avg_3d
                 IN \/ x.num * y.den < y.num * x.den
                    \/ /\ x.num * y.den = y.num * x.den
                       /\ Abs(b) < Abs(s) \/ (Abs(b) = Abs(s) /\ b < s)
           /\ \A s0 \in range :
                 (/\ at[s0].matches >= 1 /\ at[s0].avg_3d.num = 0
                  /\ \A s \in range \ {s0} :
                        ~(at[s].matches >= 1 /\ at[s].avg_3d.num = 0))
                    => b = s0 /\ search.best_stats.matches >= 1

\* C11 witness: a search over [-1, 1] on three EO keys in which the only
\* shift with distance 0 is -1, and another in which two shifts tie.
C11_Witness ==
    /\ Found
    /\ search.lo = 0 - 1 /\ search.hi = 1
    /\ Len(SortedByTime(EoDict(eo_layer))) = 3
    /\ search.best_shift = 0 - 1
    /\ ZeroAt(0 - 1) /\ ~ZeroAt(0) /\ ~ZeroAt(1)

-----------------------------------------------------------------------------
\* the attributes calculate_distances reads from an EO feature
EoFieldsRead == {"photo_id", "ellipsoid_height", "event_time"}

\* C15: the "EO Positions" layer built by EOPlotter.create_vector_layer gives
\* every EO feature the attributes photo_id, ellipsoid_height and event_time
\* that calculate_distances reads, so the analyzer runs on the layers of the
\* project without a missing-field error.
C15_EoLayerFeedsTheAnalyzer ==
    /\ \A i \in 1..Len(project) :
          project[i].name = <<"EO Positions">> =>
             \A k \in 1..Len(project[i].features) :
                EoFieldsRead \subseteq DOMAIN project[i].features[k]
    /\ ret.op = "calculate_distances" => "raised" \notin DOMAIN ret

-----------------------------------------------------------------------------
\* the JSON file is one load_json_data refuses: unreadable, malformed, not a
\* list, or with an item that lacks a required field
Refused(json_path) ==
    \/ json_path.kind \in {"unreadable", "malformed"}
    \/ json_path.data.type # "list"
    \/ \E i \in 1..Len(json_path.data.items) :
          LET item == json_path.data.items[i]
          IN \/ item.type # "object"
             \/ \E field \in {"latitude", "longitude", "altitude", "filename"} :
                   field \notin DOMAIN item.members

\* C16: when load_json_data fails, map_locations raises a descriptive
\* ValueError, no layer is created or added to the project and
\* current_layer stays as it was, even when earlier records were valid.
C16_FailedLoadChangesNothing ==
    [][(ret'.op = "map_locations" /\ Refused(ret'.json_path)) =>
          /\ "raised" \in DOMAIN ret'
          /\ ret'.raised.type = "ValueError"
          /\ ret'.raised.message # <<>>
          /\ project' = project
          /\ mapper_current_layer' = mapper_current_layer
          /\ plotter_current_layer' = plotter_current_layer]_vars

\* C16 witness: a file whose first record is valid and whose second lacks the
\* altitude is refused while the mapper holds the layer of an earlier call.
C16_Witness ==
    /\ ret.op = "map_locations"
    /\ ret.json_path.kind = "json"
    /\ ret.json_path.data = JsonList(<<JsonRecordFull, JsonRecordNoAltitude>>)
    /\ "raised" \in DOMAIN ret
    /\ mapper_current_layer # None
    /\ Len(project) = 1

-----------------------------------------------------------------------------
EmptyArray(json_path) ==
    /\ json_path.kind = "json"
    /\ json_path.data.type = "list"
    /\ json_path.data.items = <<>>

\* no file of the list holds a line: each is empty or cannot be opened
NoLines(eo_files) ==
    \A i \in 1..Len(eo_files) : ~eo_files[i].exists \/ eo_files[i].lines = <<>>

\* a directory without any band 1 image below it
NoImages(root_dir) ==
    /\ root_dir.exists /\ root_dir.is_dir
    /\ \A i \in 1..Len(root_dir.entries) :
          LET e == root_dir.entries[i]
          IN ~(e.kind = "file" /\ EndsWith(e.path[Len(e.path)], Suffix))

Raised == "raised" \in DOMAIN ret

\* C17 (as stated): an image JSON file holding an empty array, a set of EO
\* files yielding no records and a root directory with no images each
\* produce an error, not an empty layer, a None result or an empty list.
C17_EmptySourceIsAnError ==
    /\ (ret.op = "map_locations" /\ EmptyArray(ret.json_path)) => Raised
    /\ (ret.op = "plot_eo_files" /\ NoLines(ret.eo_files)) => Raised
    /\ (ret.op = "process_images" /\ NoImages(ret.root_dir)) => Raised

\* C17 (amended): an empty source is no error.  map_locations on an empty
\* array returns an empty layer that is in the project; plot_eo_files on
\* files that are empty or cannot be opened returns None and adds no layer;
\* process_images on a directory without band 1 images returns the empty
\* list.  A ValueError is raised for a root that does not exist or is no
\* directory, and for a JSON file that cannot be opened or parsed.
C17_EmptySourceIsNoError ==
    /\ [](/\ (ret.op = "map_locations" /\ EmptyArray(ret.json_path)) =>
                /\ ~Raised
                /\ ret.returned.features = <<>>
                /\ \E i \in 1..Len(project) : project[i] = ret.returned
          /\ (ret.op = "plot_eo_files" /\ NoLines(ret.eo_files)) =>
                ~Raised /\ ret.returned = None
          /\ (ret.op = "process_images" /\ NoImages(ret.root_dir)) =>
                ~Raised /\ ret.returned = <<>>
          /\ (ret.op = "process_images"
                /\ (~ret.root_dir.exists \/ ~ret.root_dir.is_dir)) =>
                Raised /\ ret.raised.type = "ValueError"
          /\ (ret.op = "map_locations"
                /\ ret.json_path.kind \in {"unreadable", "malformed"}) =>
                Raised /\ ret.raised.type = "ValueError")
    /\ [][(ret'.op = "plot_eo_files" /\ NoLines(ret'.eo_files)) =>
             project' = project
             /\ plotter_current_layer' = plotter_current_layer]_vars

\* C17 witness: map_locations has returned the empty layer of an empty array.
C17_Witness ==
    /\ ret.op = "map_locations"
    /\ EmptyArray(ret.json_path)
    /\ ~Raised
    /\ ret.returned.features = <<>>
    /\ project # <<>>

-----------------------------------------------------------------------------
\* a row with at least four columns whose x, y and z are numbers
WellFormed(row) ==
    Len(row) >= 4 /\ \A i \in 2..4 : IsFloat(row[i])

\* the features of the layer plot_eo_files returned, none when it returned None
Plotted == IF ret.returned = None THEN <<>> ELSE ret.returned.features

\* C18: when one row of an EO file is malformed only that row is skipped;
\* the other valid rows of the file, and the rows of the other files, still
\* reach the layer plot_eo_files builds.  (Stated for the rows after the
\* first, which is never taken for a header.)
C18_BadRowIsSkippedAlone ==
    ret.op = "plot_eo_files" =>
       \A i \in 1..Len(ret.eo_files) :
          LET file == ret.eo_files[i]
          IN file.exists =>
                \A k \in 2..Len(file.lines) :
                   WellFormed(file.lines[k]) =>
                      \E n \in 1..Len(Plotted) :
                         /\ Plotted[n].filename = file.lines[k][1]
                         /\ Plotted[n].source_file = file.name

-----------------------------------------------------------------------------
\* C19: read_eo_file skips the first row exactly when its first field is one
\* of filename, name, image in any letter case; otherwise the first row is
\* parsed as data, so a file that is read gives one record per row, less the
\* header.
C19_HeaderIffFirstFieldIsToken ==
    (ret.op = "read_eo_file" /\ ~Raised) =>
       LET lines == ret.file.lines
           first_is_token ==
              /\ lines # <<>>
              /\ lines[1] # <<>>
              /\ Lower(lines[1][1]) \in HeaderTokens
       IN Len(ret.returned) = Len(lines) - (IF first_is_token THEN 1 ELSE 0)

-----------------------------------------------------------------------------
\* process_images has returned normally
Processed == ret.op = "process_images" /\ ~Raised

\* some folder on the way to the file has a name ending in SET
UnderSetFolder(path) ==
    \E k \in 1..(Len(path) - 1) : EndsWith(path[k], <<"S", "E", "T">>)

\* a band 1 image of a MicaSense Altum with GPS data, below a SET folder
Qualifies(e) ==
    /\ e.kind = "file"
    /\ EndsWith(e.path[Len(e.path)], Suffix)
    /\ UnderSetFolder(e.path)
    /\ e.image.opens
    /\ e.image.make = "MicaSense" /\ e.image.model = "Altum"
    /\ e.image.gps.present

\* how many records of the list are those of the file at that path
RecordsOf(records, path) ==
    Cardinality({n \in 1..Len(records) : records[n].file_path = path})

\* C21: process_images returns exactly one ImageData record for every
\* qualifying band 1 image below a SET folder, none twice, also for a file in
\* a subfolder of a SET folder or under nested SET folders, and the saved
\* JSON holds the same records.
C21_OneRecordPerImage ==
    Processed =>
       /\ \A i \in 1..Len(ret.root_dir.entries) :
             LET e == ret.root_dir.entries[i]
             IN RecordsOf(ret.returned, e.path) = (IF Qualifies(e) THEN 1 ELSE 0)
       /\ ret.saved.written => ret.saved.data = ret.returned

-----------------------------------------------------------------------------
\* the values handed to the progress callback by the call that has returned
Reported == ret.progress

\* the tree has a folder whose name ends in SET
HasSetFolder(root_dir) ==
    \E i \in 1..Len(root_dir.entries) :
       LET e == root_dir.entries[i]
       IN e.kind = "dir" /\ EndsWith(e.path[Len(e.path)], <<"S", "E", "T">>)

\* the values are quotients with a divisor that is not 0, lie in [0, 1] and
\* never decrease
WellOrdered(values) ==
    /\ \A k \in 1..Len(values) :
          values[k].den > 0 /\ 0 <= values[k].num /\ values[k].num <= values[k].den
    /\ \A k \in 1..(Len(values) - 1) :
          values[k].num * values[k + 1].den <= values[k + 1].num * values[k].den

EndsAtOne(values) ==
    values # <<>> /\ values[Len(values)].num = values[Len(values)].den

\* C22 (as stated): with a progress callback the reported values never
\* decrease and stay within [0, 1], nothing is divided by zero when no file
\* matches, and on every normal return the last value reported is 1.0.
C22_LastReportIsOne ==
    (Processed /\ ret.progress_callback) =>
       WellOrdered(Reported) /\ EndsAtOne(Reported)

\* C22 (amended): with a progress callback the reported values never
\* decrease and stay within [0, 1], nothing is divided by zero when no file
\* matches, and on a normal return the last value reported is 1.0 when the
\* tree has a SET folder; when it has none the callback is never called.
C22_LastReportIsOneUnlessNoSetFolder ==
    (Processed /\ ret.progress_callback) =>
       /\ WellOrdered(Reported)
       /\ HasSetFolder(ret.root_dir) => EndsAtOne(Reported)
       /\ ~HasSetFolder(ret.root_dir) => Reported = <<>>

\* C22 witness: two files were reported, the first as one half, and the
\* closing value is 1.0.
C22_Witness ==
    /\ Processed /\ ret.progress_callback
    /\ Len(Reported) = 3
    /\ Reported[1].num * 2 = Reported[1].den
    /\ EndsAtOne(Reported)

-----------------------------------------------------------------------------
\* how many layers of the project are that layer
Registered(layers, layer) ==
    Cardinality({k \in 1..Len(layers) : layers[k] = layer})

\* C23: after any sequence of create_vector_layer and update_layer_crs calls
\* current_layer, once set, is a layer of the project; every update_layer_crs
\* takes the layer it replaced out of the project; and update_layer_crs
\* before any layer exists raises ValueError and changes nothing.
C23_CurrentLayerIsRegistered ==
    /\ [](mapper_current_layer # None =>
             Registered(project, mapper_current_layer) >= 1)
    /\ [][ret'.op = "update_layer_crs" =>
             IF mapper_current_layer = None
             THEN /\ "raised" \in DOMAIN ret'
                  /\ ret'.raised.type = "ValueError"
                  /\ project' = project
                  /\ mapper_current_layer' = None
             ELSE /\ "raised" \notin DOMAIN ret'
                  /\ mapper_current_layer' # mapper_current_layer
                  /\ Registered(project', mapper_current_layer)
                        = Registered(project, mapper_current_layer) - 1
                  /\ Registered(project', mapper_current_layer')
                        = Registered(project, mapper_current_layer') + 1
                  /\ Len(project') = Len(project)]_vars

\* C23 witness: the mapper has replaced the second of two equal layers by its
\* transformed copy, the first one staying in the project.
C23_Witness ==
    /\ ret.op = "update_layer_crs" /\ ~Raised
    /\ Len(project) = 2
    /\ project[2] = mapper_current_layer
    /\ project[1] = ImageVectorLayer(<<JsonRecordFull>>)
    /\ mapper_current_layer
          = TransformedLayer(ImageVectorLayer(<<JsonRecordFull>>), "EPSG:32610")

-----------------------------------------------------------------------------
\* how often a path is among the checked boxes of the open dialog
CheckedTimes(path) ==
    Cardinality({i \in 1..Len(selector.file_paths) :
                    selector.checked[i] /\ selector.file_paths[i] = path})

\* how often a path is in a list
TimesIn(paths, path) ==
    Cardinality({k \in 1..Len(paths) : paths[k] = path})

\* no file below the root is a readable .txt file holding a search term
NoCandidate(root_dir) ==
    /\ root_dir.exists /\ root_dir.is_dir
    /\ \A i \in 1..Len(root_dir.files) :
          LET f    == root_dir.files[i]
              name == f.path[Len(f.path)]
          IN ~(/\ EndsWith(name, DotTxt)
               /\ f.readable
               /\ \E term \in SearchTerms : Contains(Lower(f.content), term))

\* C24: when the dialog is accepted the selection is exactly the candidates
\* whose boxes are checked at that moment, whatever toggles, Select All and
\* Clear All came before; when it is cancelled the selection is empty;
\* find_and_select_eo_files returns an empty list without opening the dialog
\* when no candidate was found; the result is always among the candidates.
C24_SelectionIsTheCheckedBoxes ==
    /\ [][(selector # None /\ selector' = None) =>
             /\ ret'.candidates = selector.file_paths
             /\ IF ret'.accepted
                THEN /\ \A i \in 1..Len(selector.file_paths) :
                           TimesIn(ret'.returned, selector.file_paths[i])
                              = CheckedTimes(selector.file_paths[i])
                     /\ Len(ret'.returned)
                           = Cardinality({i \in 1..Len(selector.file_paths) :
                                             selector.checked[i]})
                ELSE ret'.returned = <<>>]_vars
    /\ [][(selector = None /\ "root_dir" \in DOMAIN ret'
             /\ NoCandidate(ret'.root_dir)) =>
             selector' = None /\ ret'.returned = <<>>]_vars
    /\ []("candidates" \in DOMAIN ret =>
             \A k \in 1..Len(ret.returned) :
                \E i \in 1..Len(ret.candidates) :
                   ret.candidates[i] = ret.returned[k])

\* C24 witness: of four candidates two were checked when the dialog was
\* accepted, and those two were returned.
C24_Witness ==
    /\ ret.op = "find_and_select_eo_files"
    /\ "accepted" \in DOMAIN ret /\ ret.accepted
    /\ Len(ret.candidates) = 4
    /\ ret.returned = <<ret.candidates[2], ret.candidates[4]>>

====
